---- MODULE Spec2Model ----
(***************************************************************************)
(* The packaging pipeline of scripts/build_*.py: five build scripts (pkg,  *)
(* pkgnew, pyinstaller, venv, zipapp) that resolve a version, provision a  *)
(* virtual environment in a temporary workspace, stage a layout, package   *)
(* it and emit a SHA-256 checksum file.                                    *)
(*                                                                         *)
(* Strings are sequences of tokens in which "." is a token of its own and  *)
(* no other token holds a dot or a path separator, so that pathlib's       *)
(* suffix arithmetic can be computed as the library computes it.  A path   *)
(* is a sequence of such names.  The filesystem is a function from the     *)
(* existing paths to their entries.                                        *)
(***************************************************************************)
EXTENDS Integers, Sequences, FiniteSets, TLC

VARIABLES
    args,           \* parsed command line: strategy, platform_tag, onefile, use_distribution
    environ,        \* os.environ, restricted to VERSION
    init_py,        \* src/mycli_app/__init__.py: present or not, and its parsed body
    fs,             \* the host filesystem: path -> entry
    pc,             \* position in build_*() / main()
    version,        \* local `version` of the build function
    tmp_dir,        \* the TemporaryDirectory's path while it is entered, <<>> otherwise
    staging_root,   \* local `staging_root` / `pkg_root`
    artifact_path,  \* local `pkg_path` / `archive_path`
    checksum_path,  \* local `checksum_path`
    product_path,   \* local `product_path` (pyinstaller) / `zipapp_path` (zipapp)
    site_packages,  \* local `site_packages` (zipapp)
    prior,          \* what is on the host from earlier: a successful build's outputs, a stale entry
    raised,         \* the exception in flight or caught: "none", "BuildError" or an OSError subclass
    message,        \* str(exc) of that exception
    streams,        \* what the command that exited non-zero wrote to stdout and stderr
    stderr,         \* what the process printed on its error stream
    stdout,         \* the summary the build function printed, and whether it printed the size warning
    peer,           \* a second invocation running on the same host, if any
    touched,        \* the paths each invocation has read or changed so far
    cmds,           \* external commands started so far, with their exit codes
    created,        \* number of TemporaryDirectory.__enter__ calls
    teardowns,      \* number of TemporaryDirectory.__exit__ calls
    exit_status     \* process exit status, -1 while running

vars == << args, environ, init_py, fs, pc, version, tmp_dir, staging_root,
           artifact_path, checksum_path, product_path, site_packages, prior,
           raised, message, streams, stderr, stdout, peer, touched, cmds, created,
           teardowns, exit_status >>

-----------------------------------------------------------------------------
(* Bounds of the model *)

\* longest module body of __init__.py that is explored
MaxNodes == 2

\* longest artifact, in bytes, that an external packaging tool writes
MaxArtifactLen == 3

\* bytes read per fh.read() call: stands for 1024 * 1024
CHUNK_SIZE == 2

\* size below which a component package is reported as unusually small: stands for 1 MB
SMALL_COMPONENT_SIZE == 2

-----------------------------------------------------------------------------
(* Module-level constants of the scripts *)

APP_NAME == <<"mycli">>

PACKAGE_NAME == <<"mycli_app">>

VENV_NAME == APP_NAME \o <<"-venv">>

INSTALL_PREFIX == <<"microsoft">>

PKG_IDENTIFIER == "com.naga-nandyala.mycli"

\* the directory that pkgbuild's --install-location "/usr/local" names
pkgbuild_install_location == << <<"usr">>, <<"local">> >>

PROJECT_ROOT == << <<"repo">> >>

SRC_DIR == Append(PROJECT_ROOT, <<"src">>)

Strategies == {"pkg", "pkgnew", "pyinstaller", "venv", "zipapp"}

InstallerStrategies == {"pkg", "pkgnew"}

ArchiveStrategies == {"pyinstaller", "venv", "zipapp"}

-----------------------------------------------------------------------------
(* pathlib *)

\* a path-valued local that is not bound yet
NoPath == <<>>

Name(p) == p[Len(p)]

Parent(p) == SubSeq(p, 1, Len(p) - 1)

Join(p, name) == Append(p, name)

IsUnder(p, root) ==
    /\ Len(root) <= Len(p)
    /\ SubSeq(p, 1, Len(root)) = root

\* PurePath.suffix: name[i:] for the last dot i, if 0 < i < len(name) - 1
Suffix(name) ==
    LET dots == {i \in 1..Len(name) : name[i] = "."}
    IN  IF dots = {} THEN <<>>
        ELSE LET i == CHOOSE d \in dots : \A e \in dots : e <= d
             IN  IF i > 1 /\ i < Len(name)
                 THEN SubSeq(name, i, Len(name))
                 ELSE <<>>

\* PurePath.with_suffix: the old suffix, if any, is cut off and the new one appended
WithSuffix(p, suffix) ==
    LET name == Name(p)
        old  == Suffix(name)
        stem == SubSeq(name, 1, Len(name) - Len(old))
    IN  Join(Parent(p), stem \o suffix)

-----------------------------------------------------------------------------
(* Filesystem entries and primitives *)

\* `born` names who created the entry (its inode): "self" for the build whose
\* code is running, "host" for what was there before the build started;
\* `target` is the path a symbolic link names

Dir == [kind |-> "dir", data |-> <<>>, names |-> {}, born |-> "self", target |-> NoPath]

File(d) == [kind |-> "file", data |-> d, names |-> {}, born |-> "self", target |-> NoPath]

\* a tar archive: its bytes and the names of its members
TarFile(d, members) == [kind |-> "file", data |-> d, names |-> members, born |-> "self", target |-> NoPath]

\* os.symlink(target, path)
Symlink(t) == [kind |-> "symlink", data |-> <<>>, names |-> {}, born |-> "self", target |-> t]

\* the copy of an entry is a new entry
Copy(e) == [e EXCEPT !.born = "self"]

\* a filesystem seen by a later process: everything in it was there before
Aged(f) == [p \in DOMAIN f |-> [f[p] EXCEPT !.born = "host"]]

Exists(f, p) == p \in DOMAIN f

\* Path.is_symlink(): the entry itself, not followed
IsSymlink(f, p) == Exists(f, p) /\ f[p].kind = "symlink"

\* the entry that stat() of p reaches: a symbolic link is followed
Followed(f, p) == IF IsSymlink(f, p) THEN f[p].target ELSE p

\* Path.is_file(): follows a symbolic link, False when it dangles
IsFile(f, p) == Exists(f, Followed(f, p)) /\ f[Followed(f, p)].kind = "file"

\* Path.is_dir(): follows a symbolic link, False when it dangles
IsDir(f, p) == Exists(f, Followed(f, p)) /\ f[Followed(f, p)].kind = "dir"

Unlink(f, p) == [q \in DOMAIN f \ {p} |-> f[q]]

RmTree(f, root) == [q \in {x \in DOMAIN f : ~IsUnder(x, root)} |-> f[q]]

\* Path.mkdir(parents=True, exist_ok=True)
MkdirP(f, p) ==
    LET chain == {SubSeq(p, 1, k) : k \in 1..Len(p)}
    IN  [q \in DOMAIN f \cup chain |-> IF q \in DOMAIN f THEN f[q] ELSE Dir]

\* open(path, "w") / Path.write_text / an external tool writing its output:
\* a path that exists is truncated and written over, and stays the entry it was
WriteEntry(f, p, e) ==
    [q \in DOMAIN f \cup {p} |->
        IF q # p THEN f[q]
        ELSE IF p \in DOMAIN f THEN [e EXCEPT !.born = f[p].born] ELSE e]

\* shutil.copytree(src, dst): every path under src, re-rooted at dst
CopyTree(f, src, dst) ==
    LET moved == {q \in DOMAIN f : IsUnder(q, src)}
        Dst(q) == dst \o SubSeq(q, Len(src) + 1, Len(q))
        Src(r) == src \o SubSeq(r, Len(dst) + 1, Len(r))
        new   == {Dst(q) : q \in moved}
    IN  [r \in DOMAIN f \cup new |-> IF r \in new THEN Copy(f[Src(r)]) ELSE f[r]]

-----------------------------------------------------------------------------
(* _ensure_clean *)

\* shutil.rmtree(path) raises OSError("Cannot call rmtree on a symbolic link")
rmtree_raises(f, p) == IsSymlink(f, p)

\* the exception one iteration of the loop raises: only the pyinstaller script,
\* which has no is_symlink() test, can reach rmtree with a symbolic link
ensure_clean_path_raises(strategy, f, p) ==
    IF strategy = "pyinstaller" /\ ~IsFile(f, p) /\ IsDir(f, p) /\ rmtree_raises(f, p)
    THEN "OSError" ELSE "none"

\* one iteration of the loop
ensure_clean_path(strategy, f, p) ==
    IF IsFile(f, p) \/ (strategy # "pyinstaller" /\ IsSymlink(f, p))
    THEN Unlink(f, p)
    ELSE IF IsDir(f, p) /\ ~rmtree_raises(f, p) THEN RmTree(f, p) ELSE f

\* the loop ends at the first path whose cleaning raises
RECURSIVE ensure_clean(_, _, _)
ensure_clean(strategy, f, paths) ==
    IF paths = <<>> THEN f
    ELSE IF ensure_clean_path_raises(strategy, f, Head(paths)) # "none" THEN f
    ELSE ensure_clean(strategy, ensure_clean_path(strategy, f, Head(paths)), Tail(paths))

-----------------------------------------------------------------------------
(* _detect_version *)

V1 == <<"1", ".", "0">>

V2 == <<"2", ".", "3">>

EmptyString == <<>>

BuildFailure(kind) == [ok |-> FALSE, exc |-> kind, value |-> EmptyString]

Returned(v) == [ok |-> TRUE, exc |-> "none", value |-> v]

\* os.environ.get("VERSION") is None
Unset == [present |-> FALSE, value |-> EmptyString]

EnvVar(v) == [present |-> TRUE, value |-> v]

\* statements of a module body, as ast.parse returns them
AssignVersion(v) ==
    [type |-> "Assign", targets |-> <<"__version__">>, is_str |-> TRUE, value |-> v]

\* __version__ = <anything that is not a str constant>
AssignVersionNonStr ==
    [type |-> "Assign", targets |-> <<"__version__">>, is_str |-> FALSE, value |-> EmptyString]

\* __author__ = "2.3"
AssignOtherName ==
    [type |-> "Assign", targets |-> <<"__author__">>, is_str |-> TRUE, value |-> V2]

\* __version__: str = "2.3"  (ast.AnnAssign, not ast.Assign)
AnnAssignVersion ==
    [type |-> "AnnAssign", targets |-> <<"__version__">>, is_str |-> TRUE, value |-> V2]

Nodes == {AssignVersion(V1), AssignVersion(EmptyString), AssignVersionNonStr,
          AssignOtherName, AnnAssignVersion}

\* the scripts that consult os.environ before the version module
reads_environ(strategy) == strategy \in {"pkg", "pkgnew"}

\* `for target in node.targets`: true when a target is the Name __version__
has_version_target(node) ==
    \E i \in 1..Len(node.targets) : node.targets[i] = "__version__"

\* the scan without the isinstance(value.value, str) test
RECURSIVE scan_body_any_value(_, _)
scan_body_any_value(body, i) ==
    IF i > Len(body) THEN [ok |-> FALSE, exc |-> "BuildError", value |-> <<>>]
    ELSE IF body[i].type = "Assign" /\ has_version_target(body[i])
         THEN [ok |-> TRUE, exc |-> "none", value |-> body[i].value]
         ELSE scan_body_any_value(body, i + 1)

\* `for node in module.body`: the first Assign to __version__ whose value is a str constant
RECURSIVE scan_body(_, _)
scan_body(body, i) ==
    IF i > Len(body) THEN BuildFailure("BuildError")
    ELSE IF /\ body[i].type = "Assign"
            /\ has_version_target(body[i])
            /\ body[i].is_str
         THEN Returned(body[i].value)
         ELSE scan_body(body, i + 1)

\* the resolver with the two sources consulted in the other order
detect_version_module_first(strategy, env, module) ==
    IF module.exists /\ scan_body(module.body, 1).ok
    THEN scan_body(module.body, 1)
    ELSE IF reads_environ(strategy) /\ env.VERSION.present /\ env.VERSION.value # EmptyString
         THEN Returned(env.VERSION.value)
         ELSE BuildFailure("BuildError")

detect_version(strategy, env, module) ==
    IF reads_environ(strategy) /\ env.VERSION.present /\ env.VERSION.value # EmptyString
    THEN Returned(env.VERSION.value)
    ELSE IF ~module.exists THEN BuildFailure("BuildError")
         ELSE scan_body(module.body, 1)

-----------------------------------------------------------------------------
(* _emit_sha256 *)

\* stand-in for hashlib.sha256(): a one-byte rolling state
sha256_new == 7

RECURSIVE sha256_update(_, _)
sha256_update(h, bytes) ==
    IF bytes = <<>> THEN h
    ELSE sha256_update((h * 31 + Head(bytes) + 1) % 256, Tail(bytes))

HexDigits == <<"0", "1", "2", "3", "4", "5", "6", "7",
               "8", "9", "a", "b", "c", "d", "e", "f">>

hexdigest(h) == << HexDigits[(h \div 16) + 1], HexDigits[(h % 16) + 1] >>

\* a read loop that stops at the first short read without hashing it
read_chunk_full_only(data, pos) ==
    IF pos + CHUNK_SIZE <= Len(data) THEN SubSeq(data, pos + 1, pos + CHUNK_SIZE) ELSE <<>>

\* fh.read(1024 * 1024) at offset pos: at most CHUNK_SIZE bytes, b"" at end of file
read_chunk(data, pos) ==
    SubSeq(data, pos + 1, IF pos + CHUNK_SIZE < Len(data) THEN pos + CHUNK_SIZE ELSE Len(data))

\* for chunk in iter(lambda: fh.read(...), b""): digest.update(chunk)
RECURSIVE digest_stream(_, _, _)
digest_stream(h, data, pos) ==
    LET chunk == read_chunk(data, pos)
    IN  IF chunk = <<>> THEN h
        ELSE digest_stream(sha256_update(h, chunk), data, pos + Len(chunk))

Sha256Suffix == <<".", "sha256">>

\* with_suffix(".sha256"): replaces the artifact's last suffix instead of appending
checksum_path_replacing_suffix(artifact) ==
    WithSuffix(artifact, Sha256Suffix)

checksum_path_of(artifact) ==
    WithSuffix(artifact, Suffix(Name(artifact)) \o Sha256Suffix)

checksum_line_of(f, artifact) ==
    hexdigest(digest_stream(sha256_new, f[artifact].data, 0))
        \o <<" ", " ">> \o Name(artifact) \o <<"\n">>

emit_sha256(f, artifact) ==
    WriteEntry(f, checksum_path_of(artifact), File(checksum_line_of(f, artifact)))

-----------------------------------------------------------------------------
(* Paths the build functions compute *)

\* artifacts_dir = PROJECT_ROOT / "dist" / ...
artifacts_dir_of(strategy) ==
    Join(Join(PROJECT_ROOT, <<"dist">>),
         IF strategy \in InstallerStrategies THEN <<"pkg_artifacts">> ELSE <<"artifacts">>)

\* tempfile.TemporaryDirectory(prefix=...)
tmp_prefix(strategy) ==
    CASE strategy \in InstallerStrategies -> <<"mycli-pkg-build-">>
      [] strategy = "venv"                -> <<"mycli-venv-build-">>
      [] strategy = "pyinstaller"         -> <<"mycli-build-">>
      [] strategy = "zipapp"              -> <<"mycli-zipapp-build-">>

\* the directory mkdtemp returns when no other build is running
mkdtemp_path(strategy) ==
    << <<"tmp">>, tmp_prefix(strategy) \o <<"x7k2">> >>

\* mkdtemp: the first of the random names the process draws that does not exist
mkdtemp(f, strategy, draws) ==
    LET candidate(i) == << <<"tmp">>, tmp_prefix(strategy) \o << draws[i] >> >>
    IN  IF Exists(f, candidate(1)) THEN candidate(2) ELSE candidate(1)

venv_dir_of(strategy, tmp) ==
    Join(tmp, IF strategy \in {"pyinstaller", "zipapp"} THEN <<"build-env">> ELSE <<"bundle-venv">>)

\* _virtualenv_python on a POSIX host
virtualenv_python(strategy, venv_dir) ==
    Join(Join(venv_dir, <<"bin">>),
         IF strategy \in {"pyinstaller", "zipapp"} THEN <<"python">> ELSE <<"python3">>)

\* an installer name without the version
pkg_filename_unversioned(ver, platform_tag) ==
    APP_NAME \o <<"-">> \o platform_tag \o <<".", "pkg">>

\* pkg_filename = f"{APP_NAME}-{version}-{platform_tag}.pkg"
pkg_filename(ver, platform_tag) ==
    APP_NAME \o <<"-">> \o ver \o <<"-">> \o platform_tag \o <<".", "pkg">>

\* component_pkg_name = f"{APP_NAME}-component-{version}-{platform_tag}.pkg"
component_pkg_name(ver, platform_tag) ==
    APP_NAME \o <<"-component-">> \o ver \o <<"-">> \o platform_tag \o <<".", "pkg">>

\* a staging root placed inside the temporary directory instead
staging_root_in_workspace(strategy, platform_tag) ==
    Join(mkdtemp_path(strategy), APP_NAME \o <<"-">> \o platform_tag)

\* staging_root = artifacts_dir / f"{APP_NAME}-{platform_tag}"
staging_root_of(strategy, platform_tag) ==
    Join(artifacts_dir_of(strategy), APP_NAME \o <<"-">> \o platform_tag)

\* archive_path = staging_root.parent / f"{staging_root.name}.tar.gz"
archive_path_of(root) ==
    Join(Parent(root), Name(root) \o <<".", "tar", ".", "gz">>)

-----------------------------------------------------------------------------
(* What the external provisioning tools leave behind when they exit 0 *)

\* python -m venv <venv_dir>
venv_created(f, venv_dir) ==
    LET f1 == MkdirP(MkdirP(f, Join(venv_dir, <<"bin">>)), Join(venv_dir, <<"lib">>))
        f2 == WriteEntry(f1, Join(Join(venv_dir, <<"bin">>), <<"python">>), File(<<>>))
    IN  WriteEntry(f2, Join(Join(venv_dir, <<"bin">>), <<"python3">>), File(<<>>))

\* pip install <project>: the package, with the bytecode caches pip compiles
project_installed(f, venv_dir) ==
    LET pkg   == Join(Join(venv_dir, <<"lib">>), PACKAGE_NAME)
        cache == Join(pkg, <<"__pycache__">>)
        f1 == MkdirP(f, cache)
        f2 == WriteEntry(f1, Join(pkg, <<"cli", ".", "py">>), File(<<>>))
        f3 == WriteEntry(f2, Join(cache, <<"cli", ".", "pyc">>), File(<<>>))
    IN  WriteEntry(f3, Join(pkg, <<"legacy", ".", "pyo">>), File(<<>>))

-----------------------------------------------------------------------------
(* _prune_bytecode, _create_launchers, staging *)

EndsWith(name, tail) ==
    /\ Len(tail) <= Len(name)
    /\ SubSeq(name, Len(name) - Len(tail) + 1, Len(name)) = tail

\* a pruning pass that removes the __pycache__ directories and nothing else
prune_bytecode_caches_only(f, root) ==
    LET caches == {q \in DOMAIN f : /\ IsUnder(q, root) /\ q # root
                                    /\ Name(q) = <<"__pycache__">> /\ IsDir(f, q)}
    IN  [q \in {x \in DOMAIN f : \A c \in caches : ~IsUnder(x, c)} |-> f[q]]

\* _prune_bytecode: rmtree of every __pycache__ below root, then unlink of
\* every *.pyc and *.pyo that is left
prune_bytecode(f, root) ==
    LET caches == {q \in DOMAIN f : /\ IsUnder(q, root) /\ q # root
                                    /\ Name(q) = <<"__pycache__">> /\ IsDir(f, q)}
        kept1  == {q \in DOMAIN f : \A c \in caches : ~IsUnder(q, c)}
        stale  == {q \in kept1 : /\ IsUnder(q, root) /\ q # root
                                 /\ f[q].kind = "file"
                                 /\ \/ EndsWith(Name(q), <<".", "pyc">>)
                                    \/ EndsWith(Name(q), <<".", "pyo">>)}
    IN  [q \in kept1 \ stale |-> f[q]]

\* _write_file: the zipapp script does not create the parent directory
write_file(strategy, f, p, content) ==
    WriteEntry(IF strategy = "zipapp" THEN f ELSE MkdirP(f, Parent(p)), p, File(content))

\* a _create_system_launcher that names /usr/local/libexec/mycli-venv in both scripts
create_system_launcher_libexec(strategy, f, bin_dir) ==
    write_file(strategy, f, Join(bin_dir, APP_NAME),
               << "exec", << <<"usr">>, <<"local">>, <<"libexec">>, VENV_NAME,
                             <<"bin">>, <<"python3">> >> >>)

\* _create_system_launcher: bin/mycli, naming the interpreter's absolute path
create_system_launcher(strategy, f, bin_dir) ==
    LET venv_abs == IF strategy = "pkgnew"
                    THEN << <<"usr">>, <<"local">>, INSTALL_PREFIX, APP_NAME >>
                    ELSE << <<"usr">>, <<"local">>, <<"libexec">>, VENV_NAME >>
    IN  write_file(strategy, f, Join(bin_dir, APP_NAME),
                   << "exec", venv_abs \o << <<"bin">>, <<"python3">> >> >>)

\* a _create_launchers that writes the POSIX launcher only
create_launchers_posix_only(strategy, f, bin_dir) ==
    LET payload == IF strategy = "venv"
                   THEN << <<"libexec">>, VENV_NAME >>
                   ELSE << <<"libexec">>, APP_NAME \o <<".", "pyz">> >>
    IN  write_file(strategy, f, Join(bin_dir, APP_NAME), << "exec", payload >>)

\* _create_launchers: bin/mycli and bin/mycli.bat
create_launchers(strategy, f, bin_dir) ==
    LET payload == IF strategy = "venv"
                   THEN << <<"libexec">>, VENV_NAME >>
                   ELSE << <<"libexec">>, APP_NAME \o <<".", "pyz">> >>
        f1 == write_file(strategy, f, Join(bin_dir, APP_NAME), << "exec", payload >>)
    IN  write_file(strategy, f1, Join(bin_dir, APP_NAME \o <<".", "bat">>), << "exec", payload >>)

\* _create_package_root (pkg, pkgnew)
create_package_root(strategy, f, venv_source, staging_dir) ==
    LET pkg_root    == Join(staging_dir, <<"pkg_root">>)
        bin_dir     == Join(pkg_root, <<"bin">>)
        prefix_dir  == Join(pkg_root, IF strategy = "pkgnew" THEN INSTALL_PREFIX ELSE <<"libexec">>)
        venv_target == Join(prefix_dir, IF strategy = "pkgnew" THEN APP_NAME ELSE VENV_NAME)
        f0 == ensure_clean(strategy, f, << pkg_root >>)
        f1 == MkdirP(MkdirP(f0, bin_dir), prefix_dir)
        f2 == CopyTree(f1, venv_source, venv_target)
        f3 == prune_bytecode(f2, venv_target)
    IN  create_system_launcher(strategy, f3, bin_dir)

\* a _stage_bundle that stages into whatever is at the staging root
stage_bundle_venv_over_existing(f, venv_source, root) ==
    LET bin_dir     == Join(root, <<"bin">>)
        libexec_dir == Join(root, <<"libexec">>)
        venv_target == Join(libexec_dir, VENV_NAME)
        f1 == MkdirP(MkdirP(f, bin_dir), libexec_dir)
        f2 == CopyTree(f1, venv_source, venv_target)
        f3 == prune_bytecode(f2, venv_target)
    IN  create_launchers("venv", f3, bin_dir)

\* _stage_bundle (venv): source is the provisioned environment
stage_bundle_venv(f, venv_source, root) ==
    LET bin_dir     == Join(root, <<"bin">>)
        libexec_dir == Join(root, <<"libexec">>)
        venv_target == Join(libexec_dir, VENV_NAME)
        f0 == ensure_clean("venv", f, << root >>)
        f1 == MkdirP(MkdirP(f0, bin_dir), libexec_dir)
        f2 == CopyTree(f1, venv_source, venv_target)
        f3 == prune_bytecode(f2, venv_target)
    IN  create_launchers("venv", f3, bin_dir)

\* _stage_bundle (zipapp): source is the .pyz
stage_bundle_zipapp(f, zipapp_path, root) ==
    LET bin_dir     == Join(root, <<"bin">>)
        libexec_dir == Join(root, <<"libexec">>)
        f0 == ensure_clean("zipapp", f, << root >>)
        f1 == MkdirP(MkdirP(f0, bin_dir), libexec_dir)
        f2 == WriteEntry(f1, Join(libexec_dir, Name(zipapp_path)), Copy(f[zipapp_path]))
    IN  create_launchers("zipapp", f2, bin_dir)

\* the exception _stage_bundle raises: the pyinstaller script's _ensure_clean
\* calls rmtree on a link to a directory and leaves a dangling link in place,
\* where bin_dir.mkdir(parents=True, exist_ok=True) then finds a non-directory
stage_bundle_raises(strategy, f, root) ==
    IF strategy # "pyinstaller" THEN "none"
    ELSE IF ensure_clean_path_raises(strategy, f, root) # "none"
    THEN ensure_clean_path_raises(strategy, f, root)
    ELSE IF IsSymlink(ensure_clean(strategy, f, << root >>), root)
    THEN "FileExistsError"
    ELSE "none"

\* _stage_bundle (pyinstaller): source is the frozen file or directory
stage_bundle_pyinstaller(f, product, root, onefile) ==
    LET bin_dir == Join(root, <<"bin">>)
        f0 == ensure_clean("pyinstaller", f, << root >>)
        f1 == MkdirP(f0, bin_dir)
    IN  IF stage_bundle_raises("pyinstaller", f, root) # "none" THEN f0
        ELSE IF onefile
        THEN WriteEntry(f1, Join(bin_dir, APP_NAME \o Suffix(Name(product))), Copy(f[product]))
        ELSE CopyTree(f1, product, Join(bin_dir, APP_NAME))

-----------------------------------------------------------------------------
(* _create_tarball *)

\* tar.add(path) with no arcname: each member is named by its host path
tar_add_host_path(f, p, arcname) ==
    {q \in DOMAIN f : IsUnder(q, p)}

\* tar.add(path, arcname=arcname): the path and, recursively, all below it
tar_add(f, p, arcname) ==
    {arcname \o SubSeq(q, Len(p) + 1, Len(q)) : q \in {x \in DOMAIN f : IsUnder(x, p)}}

\* staging_root.iterdir()
iterdir(f, p) == {q \in DOMAIN f : Len(q) = Len(p) + 1 /\ IsUnder(q, p)}

\* every script adding the children of the staged root under their own names
tar_members_children(strategy, f, root) ==
    UNION {tar_add(f, item, << Name(item) >>) : item \in iterdir(f, root)}

\* the member names: the venv script adds each child under its own name,
\* the other two add the staged root under the root's name
tar_members(strategy, f, root) ==
    IF strategy = "venv"
    THEN UNION {tar_add(f, item, << Name(item) >>) : item \in iterdir(f, root)}
    ELSE tar_add(f, root, << Name(root) >>)

\* gz_bytes: what gzip makes of the stream (it embeds a timestamp)
create_tarball(strategy, f, root, gz_bytes) ==
    LET archive_path == archive_path_of(root)
        f0 == ensure_clean(strategy, f, << archive_path >>)
    IN  WriteEntry(f0, archive_path, TarFile(gz_bytes, tar_members(strategy, f0, root)))

-----------------------------------------------------------------------------
(* What the external packaging tools leave behind *)

ExitCodes == {0, 1}

Bytes == {0, 1}

\* every file content of at most MaxArtifactLen bytes
ArtifactBytes == UNION {[1..n -> Bytes] : n \in 0..MaxArtifactLen}

\* an external tool's run: exit code, whether it wrote its output, and the bytes
ToolOutcomes ==
    {[rc |-> r, wrote |-> FALSE, data |-> <<>>] : r \in ExitCodes}
        \cup {[rc |-> r, wrote |-> TRUE, data |-> d] : r \in ExitCodes, d \in ArtifactBytes}

\* the runs of pkgbuild that write the component package (build_pkgnew_installer.py):
\* one below the size that is reported, one of that size
ComponentOutcomes ==
    {o \in ToolOutcomes :
        o.data \in {<<>>, <<1>>, [i \in 1..SMALL_COMPONENT_SIZE |-> 1]} /\ (o.wrote => o.data # <<>>)}

\* a tool the script does not run
NoOutcome == [rc |-> 0, wrote |-> FALSE, data |-> <<>>]

\* python -m PyInstaller ... --distpath dist_dir --workpath build_dir
pyinstaller_ran(f, build_dir, spec_file, dist_dir, onefile, produced) ==
    LET f1 == WriteEntry(MkdirP(f, build_dir), spec_file, File(<<>>))
        product == Join(dist_dir, APP_NAME)
    IN  IF ~produced THEN f1
        ELSE IF onefile THEN WriteEntry(MkdirP(f1, dist_dir), product, File(<<>>))
        ELSE WriteEntry(MkdirP(f1, product), Join(product, APP_NAME), File(<<>>))

\* an element of an XML document: its tag, the position of its parent in
\* document order (0 for the root element), its id and choice attributes and its text
Element(tag, parent, id, choice, text) ==
    [tag |-> tag, parent |-> parent, id |-> id, choice |-> choice, text |-> text]

\* the document build_pkg_installer.py generates, in document order
distribution_document_pkg(ver) ==
    << Element("installer-gui-script", 0, "", "", <<>>),
       Element("title", 1, "", "", <<"MyCLI ">> \o ver),
       Element("welcome", 1, "", "", <<>>),
       Element("requirements", 1, "", "", <<>>),
       Element("requirement", 4, "", "", <<>>),
       Element("choices-outline", 1, "", "", <<>>),
       Element("line", 6, "", "default", <<>>),
       Element("line", 7, "", "com.naga-nandyala.mycli", <<>>),
       Element("choice", 1, "default", "", <<>>),
       Element("pkg-ref", 9, "com.naga-nandyala.mycli", "", <<>>),
       Element("pkg-ref", 1, "com.naga-nandyala.mycli", "", <<>>) >>

\* the document build_pkgnew_installer.py generates, in document order
distribution_document_pkgnew(ver, platform_tag) ==
    << Element("installer-gui-script", 0, "", "", <<>>),
       Element("title", 1, "", "", <<"MyCLI ">> \o ver),
       Element("pkg-ref", 1, "com.naga-nandyala.mycli", "", component_pkg_name(ver, platform_tag)),
       Element("choices-outline", 1, "", "", <<>>),
       Element("line", 4, "", "mycli-choice", <<>>),
       Element("choice", 1, "mycli-choice", "", <<>>),
       Element("pkg-ref", 6, "com.naga-nandyala.mycli", "", <<>>) >>

distribution_document(strategy, ver, platform_tag) ==
    IF strategy = "pkgnew" THEN distribution_document_pkgnew(ver, platform_tag)
    ELSE distribution_document_pkg(ver)

\* a _create_distribution_xml that writes next to the project's sources
create_distribution_xml_in_project(strategy, f, staging_dir, ver, platform_tag) ==
    WriteEntry(f, Join(PROJECT_ROOT, <<"distribution", ".", "xml">>),
               File(distribution_document(strategy, ver, platform_tag)))

\* _create_distribution_xml: writes staging_dir / "distribution.xml"
create_distribution_xml(strategy, f, staging_dir, ver, platform_tag) ==
    WriteEntry(f, Join(staging_dir, <<"distribution", ".", "xml">>),
               File(distribution_document(strategy, ver, platform_tag)))

Cmd(tool, rc) == [tool |-> tool, rc |-> rc]

\* command_list: the argument vector of each external command, abridged
command_list(tool) ==
    CASE tool = "venv"                    -> <<"python", "-m", "venv">>
      [] tool = "pip-upgrade"             -> <<"python", "-m", "pip", "install", "--upgrade", "pip">>
      [] tool = "pip-install-project"     -> <<"python", "-m", "pip", "install", "<project>">>
      [] tool = "pip-install-pyinstaller" -> <<"python", "-m", "pip", "install", "pyinstaller>=6.3">>
      [] tool = "pip-install-shiv"        -> <<"python", "-m", "pip", "install", "shiv>=1.0.0">>
      [] tool = "PyInstaller"             -> <<"python", "-m", "PyInstaller">>
      [] tool = "sysconfig"               -> <<"python", "-c", "import sysconfig">>
      [] tool = "shiv"                    -> <<"python", "-m", "shiv">>
      [] tool = "which-pkgbuild"          -> <<"which", "pkgbuild">>
      [] tool = "which-productbuild"      -> <<"which", "productbuild">>
      [] tool = "pkgbuild"                -> <<"pkgbuild", "--identifier", PKG_IDENTIFIER,
                                               "--install-location", "/usr/local">>
      [] tool = "productbuild"            -> <<"productbuild">>

\* what a process that exits non-zero wrote to its standard output and error
Streams == {[out |-> o, err |-> <<"stderr text">>] : o \in {<<>>, <<"stdout text">>}}

NoStreams == [out |-> <<>>, err |-> <<>>]

NoMessage == <<>>

\* the calls of _run that pass capture_output=True (the pyinstaller script's
\* _run has no such parameter, and runs none of these commands)
captures(tool) == tool \in {"which-pkgbuild", "which-productbuild", "sysconfig"}

\* a _run whose message always carries both streams
run_error_capturing(tool, rc, io) ==
    <<"Command failed with exit code ", ToString(rc), ": ">> \o command_list(tool)
        \o (IF io.out # <<>> THEN <<"\nSTDOUT:\n">> \o io.out ELSE <<>>)
        \o (IF io.err # <<>> THEN <<"\nSTDERR:\n">> \o io.err ELSE <<>>)

\* _run: the message of the BuildError raised when the command exits rc # 0
run_error(tool, rc, io) ==
    LET output == IF captures(tool) THEN io.out ELSE <<>>
        error  == IF captures(tool) THEN io.err ELSE <<>>
    IN  <<"Command failed with exit code ", ToString(rc), ": ">> \o command_list(tool)
            \o (IF output # <<>> THEN <<"\nSTDOUT:\n">> \o output ELSE <<>>)
            \o (IF error # <<>> THEN <<"\nSTDERR:\n">> \o error ELSE <<>>)

\* except BuildError: raise BuildError("<tool> not found. Install ...")
not_found_error(tool) ==
    << tool, " not found. Install Xcode Command Line Tools: xcode-select --install" >>

\* str(exc) of the OSError the standard library raises
os_error(exc) ==
    IF exc = "FileExistsError" THEN <<"[Errno 17] File exists: ", "<staging_root>">>
    ELSE <<"Cannot call rmtree on a symbolic link">>

\* the message of the BuildError _detect_version raises
detect_version_error(module) ==
    IF ~module.exists
    THEN <<"Could not locate ", "src/mycli_app/__init__.py", " to determine version">>
    ELSE <<"Could not determine version from package (__version__ missing)">>

-----------------------------------------------------------------------------
(* The helper functions that run external commands.  Each takes the        *)
(* outcomes of the commands it may start and what a failing command wrote  *)
(* to its streams, and returns the filesystem it leaves, the commands it   *)
(* started, the exception it raises ("none" when it returns), its return   *)
(* value and the exception's message.                                      *)

Result(f, log, exc, ret, msg) ==
    [fs |-> f, log |-> log, exc |-> exc, ret |-> ret, msg |-> msg]

\* _create_virtualenv that goes on to the pip upgrade whatever venv returned
create_virtualenv_ignoring_failure(strategy, f, venv_dir, rc_venv, rc_pip, io) ==
    LET f0 == ensure_clean(strategy, f, << venv_dir >>)
        f1 == venv_created(f0, venv_dir)
        log == << Cmd("venv", rc_venv), Cmd("pip-upgrade", rc_pip) >>
    IN  IF rc_pip # 0
        THEN Result(f1, log, "BuildError", NoPath, run_error("pip-upgrade", rc_pip, io))
        ELSE Result(f1, log, "none", virtualenv_python(strategy, venv_dir), NoMessage)

\* _create_virtualenv
create_virtualenv(strategy, f, venv_dir, rc_venv, rc_pip, io) ==
    LET f0 == ensure_clean(strategy, f, << venv_dir >>)
        f1 == venv_created(f0, venv_dir)
    IN  IF rc_venv # 0
        THEN Result(f0, << Cmd("venv", rc_venv) >>, "BuildError", NoPath,
                    run_error("venv", rc_venv, io))
        ELSE IF rc_pip # 0
        THEN Result(f1, << Cmd("venv", 0), Cmd("pip-upgrade", rc_pip) >>, "BuildError", NoPath,
                    run_error("pip-upgrade", rc_pip, io))
        ELSE Result(f1, << Cmd("venv", 0), Cmd("pip-upgrade", 0) >>, "none",
                    virtualenv_python(strategy, venv_dir), NoMessage)

\* the auxiliary tool the script installs after the project, if any
aux_tool(strategy) ==
    CASE strategy = "pyinstaller" -> "pip-install-pyinstaller"
      [] strategy = "zipapp"      -> "pip-install-shiv"
      [] OTHER                    -> "none"

\* _install_project that installs the auxiliary tool before the project
install_project_aux_first(strategy, f, venv_dir, rc_project, rc_aux, io) ==
    LET f1 == project_installed(f, venv_dir)
        aux == aux_tool(strategy)
    IN  IF aux # "none" /\ rc_aux # 0
        THEN Result(f, << Cmd(aux, rc_aux) >>, "BuildError", NoPath, run_error(aux, rc_aux, io))
        ELSE LET log == (IF aux = "none" THEN <<>> ELSE << Cmd(aux, 0) >>)
                            \o << Cmd("pip-install-project", rc_project) >>
             IN  IF rc_project # 0
                 THEN Result(f, log, "BuildError", NoPath,
                             run_error("pip-install-project", rc_project, io))
                 ELSE Result(f1, log, "none", NoPath, NoMessage)

\* _install_project
install_project(strategy, f, venv_dir, rc_project, rc_aux, io) ==
    LET f1 == project_installed(f, venv_dir)
        aux == aux_tool(strategy)
    IN  IF rc_project # 0
        THEN Result(f, << Cmd("pip-install-project", rc_project) >>, "BuildError", NoPath,
                    run_error("pip-install-project", rc_project, io))
        ELSE IF aux = "none"
        THEN Result(f1, << Cmd("pip-install-project", 0) >>, "none", NoPath, NoMessage)
        ELSE IF rc_aux # 0
        THEN Result(f1, << Cmd("pip-install-project", 0), Cmd(aux, rc_aux) >>, "BuildError",
                    NoPath, run_error(aux, rc_aux, io))
        ELSE Result(f1, << Cmd("pip-install-project", 0), Cmd(aux, 0) >>, "none",
                    NoPath, NoMessage)

\* _invoke_pyinstaller that takes a zero exit for success
invoke_pyinstaller_trusting_exit(f, dist_dir, onefile, rc, produced, io) ==
    LET build_dir == Join(PROJECT_ROOT, <<"build">>)
        spec_file == Join(PROJECT_ROOT, APP_NAME \o <<".", "spec">>)
        f0 == ensure_clean("pyinstaller", f, << build_dir, dist_dir, spec_file >>)
        f1 == pyinstaller_ran(f0, build_dir, spec_file, dist_dir, onefile, produced)
        log == << Cmd("PyInstaller", rc) >>
    IN  IF rc # 0
        THEN Result(f1, log, "BuildError", NoPath, run_error("PyInstaller", rc, io))
        ELSE Result(f1, log, "none", Join(dist_dir, APP_NAME), NoMessage)

\* _invoke_pyinstaller
invoke_pyinstaller(f, dist_dir, onefile, rc, produced, io) ==
    LET build_dir == Join(PROJECT_ROOT, <<"build">>)
        spec_file == Join(PROJECT_ROOT, APP_NAME \o <<".", "spec">>)
        f0 == ensure_clean("pyinstaller", f, << build_dir, dist_dir, spec_file >>)
        f1 == pyinstaller_ran(f0, build_dir, spec_file, dist_dir, onefile, produced)
        product == Join(dist_dir, APP_NAME)
        log == << Cmd("PyInstaller", rc) >>
    IN  IF rc # 0
        THEN Result(f1, log, "BuildError", NoPath, run_error("PyInstaller", rc, io))
        ELSE IF ~Exists(f1, product)
        THEN Result(f1, log, "BuildError", NoPath,
                    IF onefile THEN <<"PyInstaller onefile output was not produced">>
                    ELSE <<"PyInstaller output not found at ", "<product>">>)
        ELSE Result(f1, log, "none", product, NoMessage)

\* _discover_site_packages: the distinct lines the interpreter printed
discover_site_packages(f, venv_dir, rc, n_lines, io) ==
    LET purelib == Join(Join(venv_dir, <<"lib">>), <<"site-packages">>)
        log == << Cmd("sysconfig", rc) >>
    IN  IF rc # 0
        THEN Result(f, log, "BuildError", <<>>, run_error("sysconfig", rc, io))
        ELSE Result(f, log, "none", IF n_lines = 0 THEN <<>> ELSE << purelib >>, NoMessage)

\* _build_zipapp
build_zipapp(f, packages, output_dir, rc, produced, io) ==
    LET zipapp_path == Join(output_dir, APP_NAME \o <<".", "pyz">>)
        f0 == ensure_clean("zipapp", f, << zipapp_path >>)
        f1 == IF produced THEN WriteEntry(f0, zipapp_path, File(<<>>)) ELSE f0
        log == << Cmd("shiv", rc) >>
    IN  IF packages = <<>>
        THEN Result(f0, <<>>, "BuildError", NoPath,
                    <<"Could not locate site-packages directory inside the build environment">>)
        ELSE IF rc # 0 THEN Result(f1, log, "BuildError", NoPath, run_error("shiv", rc, io))
        ELSE IF ~Exists(f1, zipapp_path)
        THEN Result(f1, log, "BuildError", NoPath,
                    <<"shiv did not produce the expected zipapp at ", "<zipapp_path>">>)
        ELSE Result(f1, log, "none", zipapp_path, NoMessage)

\* a command is among those a helper started
Ran_in(log, tool) == \E i \in 1..Len(log) : log[i].tool = tool

\* "WARNING: Component package is unusually small": printed when pkgbuild exited 0,
\* the component package exists and is below the size
component_size_warning(comp) ==
    comp.rc = 0 /\ comp.wrote /\ Len(comp.data) < SMALL_COMPONENT_SIZE

\* _create_pkg_installer that looks for pkgbuild before it cleans the output path
create_pkg_installer_pkg_which_first(f, ver, platform_tag, artifacts_dir, rc_which, out, io) ==
    LET pkg_path == Join(artifacts_dir, pkg_filename(ver, platform_tag))
        f0 == ensure_clean("pkg", f, << pkg_path >>)
        f1 == IF out.wrote THEN WriteEntry(f0, pkg_path, File(out.data)) ELSE f0
        log == << Cmd("which-pkgbuild", 0), Cmd("pkgbuild", out.rc) >>
    IN  IF rc_which # 0
        THEN Result(f, << Cmd("which-pkgbuild", rc_which) >>, "BuildError", NoPath,
                    not_found_error("pkgbuild"))
        ELSE IF out.rc # 0
        THEN Result(f1, log, "BuildError", NoPath, run_error("pkgbuild", out.rc, io))
        ELSE IF ~Exists(f1, pkg_path)
        THEN Result(f1, log, "BuildError", NoPath,
                    <<"Package creation failed: ", "<pkg_path>", " does not exist">>)
        ELSE Result(f1, log, "none", pkg_path, NoMessage)

\* _create_pkg_installer (build_pkg_installer.py): pkgbuild writes the final installer
create_pkg_installer_pkg(f, ver, platform_tag, artifacts_dir, rc_which, out, io) ==
    LET pkg_path == Join(artifacts_dir, pkg_filename(ver, platform_tag))
        f0 == ensure_clean("pkg", f, << pkg_path >>)
        f1 == IF out.wrote THEN WriteEntry(f0, pkg_path, File(out.data)) ELSE f0
        log == << Cmd("which-pkgbuild", 0), Cmd("pkgbuild", out.rc) >>
    IN  IF rc_which # 0
        THEN Result(f0, << Cmd("which-pkgbuild", rc_which) >>, "BuildError", NoPath,
                    not_found_error("pkgbuild"))
        ELSE IF out.rc # 0
        THEN Result(f1, log, "BuildError", NoPath, run_error("pkgbuild", out.rc, io))
        ELSE IF ~Exists(f1, pkg_path)
        THEN Result(f1, log, "BuildError", NoPath,
                    <<"Package creation failed: ", "<pkg_path>", " does not exist">>)
        ELSE Result(f1, log, "none", pkg_path, NoMessage)

\* _create_pkg_installer (build_pkgnew_installer.py): pkgbuild writes the component
\* package into the staging directory, productbuild the final installer
create_pkg_installer_pkgnew(f, ver, platform_tag, artifacts_dir, staging_dir, rc_which, rc_which2, comp, out, io) ==
    LET final_pkg_path == Join(artifacts_dir, pkg_filename(ver, platform_tag))
        component_pkg_path == Join(staging_dir, component_pkg_name(ver, platform_tag))
        f0 == ensure_clean("pkgnew", f, << final_pkg_path >>)
        f1 == IF comp.wrote THEN WriteEntry(f0, component_pkg_path, File(comp.data)) ELSE f0
        f2 == create_distribution_xml("pkgnew", f1, staging_dir, ver, platform_tag)
        f3 == IF out.wrote THEN WriteEntry(f2, final_pkg_path, File(out.data)) ELSE f2
        log1 == << Cmd("which-pkgbuild", 0), Cmd("which-productbuild", 0),
                   Cmd("pkgbuild", comp.rc) >>
        log2 == log1 \o << Cmd("productbuild", out.rc) >>
    IN  IF rc_which # 0
        THEN Result(f0, << Cmd("which-pkgbuild", rc_which) >>, "BuildError", NoPath,
                    not_found_error("pkgbuild"))
        ELSE IF rc_which2 # 0
        THEN Result(f0, << Cmd("which-pkgbuild", 0), Cmd("which-productbuild", rc_which2) >>,
                    "BuildError", NoPath, not_found_error("productbuild"))
        ELSE IF comp.rc # 0
        THEN Result(f1, log1, "BuildError", NoPath, run_error("pkgbuild", comp.rc, io))
        ELSE IF ~Exists(f1, component_pkg_path)
        THEN Result(f1, log1, "BuildError", NoPath,
                    <<"Component package creation failed: ", "<component_pkg_path>",
                      " does not exist">>)
        ELSE IF out.rc # 0
        THEN Result(f3, log2, "BuildError", NoPath, run_error("productbuild", out.rc, io))
        \* final_pkg_path.stat() runs before the exists() test
        ELSE IF ~Exists(f3, final_pkg_path)
        THEN Result(f3, log2, "FileNotFoundError", NoPath,
                    <<"[Errno 2] No such file or directory: ", "<final_pkg_path>">>)
        ELSE Result(f3, log2, "none", final_pkg_path, NoMessage)

-----------------------------------------------------------------------------
(* The state before main() runs *)

NoVersion == <<"<unresolved>">>

PlatformTags == { <<"macos-universal2">>, <<"linux-x64">> }

\* the argument combinations each script's parser accepts
ArgsOf(tags) ==
    {[strategy |-> s, platform_tag |-> t, onefile |-> o, use_distribution |-> d] :
        s \in Strategies, t \in tags, o \in BOOLEAN, d \in BOOLEAN}

ValidArgs(a) ==
    /\ (a.strategy # "pyinstaller" => a.onefile)
    /\ (a.strategy # "pkg" => ~a.use_distribution)

Environs == {[VERSION |-> Unset], [VERSION |-> EnvVar(EmptyString)], [VERSION |-> EnvVar(V2)]}

BodiesUpTo(n) == UNION {[1..k -> Nodes] : k \in 0..n}

ModulesUpTo(n) ==
    {[exists |-> FALSE, body |-> <<>>]} \cup {[exists |-> TRUE, body |-> b] : b \in BodiesUpTo(n)}

NoPrior == [built |-> FALSE, version |-> NoVersion, stale |-> "none"]

Priors == {NoPrior} \cup {[built |-> TRUE, version |-> v, stale |-> "none"] : v \in {V1, V2}}

\* what may be found at a path the build is about to clean: a directory tree, a
\* regular file, or a symbolic link to a directory, to a file, or to nothing
StaleKinds == {"tree", "file", "symlink_dir", "symlink_file", "symlink_dangling"}

StalePriors == {[built |-> FALSE, version |-> NoVersion, stale |-> k] : k \in StaleKinds}

\* a checkout of the repository and an empty temporary directory
PristineFS == Aged([p \in {PROJECT_ROOT, SRC_DIR, << <<"tmp">> >>} |-> Dir])

\* what a successful build of (strategy, platform_tag, ver) leaves on the host
PriorFS(a, ver) ==
    LET s    == a.strategy
        adir == artifacts_dir_of(s)
        tmp  == mkdtemp_path(s)
        venv == venv_dir_of(s, tmp)
        f0   == MkdirP(PristineFS, adir)
    IN  Aged(
        IF s \in InstallerStrategies
        THEN LET pkg == Join(adir, pkg_filename(ver, a.platform_tag))
             IN  emit_sha256(WriteEntry(f0, pkg, File(<<1>>)), pkg)
        ELSE LET root == staging_root_of(s, a.platform_tag)
                 f1 == project_installed(venv_created(MkdirP(f0, tmp), venv), venv)
                 f2 == CASE s = "venv" -> stage_bundle_venv(f1, venv, root)
                         [] s = "zipapp" ->
                              LET pyz == Join(tmp, APP_NAME \o <<".", "pyz">>)
                              IN  stage_bundle_zipapp(WriteEntry(f1, pyz, File(<<>>)), pyz, root)
                         [] s = "pyinstaller" ->
                              stage_bundle_pyinstaller(
                                  pyinstaller_ran(f1, Join(PROJECT_ROOT, <<"build">>),
                                                  Join(PROJECT_ROOT, APP_NAME \o <<".", "spec">>),
                                                  Join(tmp, <<"dist">>), a.onefile, TRUE),
                                  Join(Join(tmp, <<"dist">>), APP_NAME), root, a.onefile)
                 f3 == create_tarball(s, RmTree(f2, tmp), root, <<1>>)
             IN  emit_sha256(f3, archive_path_of(root)))

\* the fixed path outside the workspace that the script hands to _ensure_clean
\* before it stages or packages: the staging root, or the installer of version 1.0
stale_path(a) ==
    IF a.strategy \in InstallerStrategies
    THEN Join(artifacts_dir_of(a.strategy), pkg_filename(V1, a.platform_tag))
    ELSE staging_root_of(a.strategy, a.platform_tag)

\* where the symbolic links point
link_target == Join(Join(PROJECT_ROOT, <<"dist">>), <<"elsewhere">>)

\* a host on which something of the given kind is at that path
StaleFS(a, kind) ==
    LET p  == stale_path(a)
        f0 == MkdirP(PristineFS, Parent(p))
        at_target == Join(link_target, <<"keep", ".", "txt">>)
    IN  Aged(
        CASE kind = "tree" ->
                 WriteEntry(MkdirP(f0, Join(Join(p, <<"libexec">>), <<"old">>)),
                            Join(p, <<"stale", ".", "txt">>), File(<<0>>))
          [] kind = "file" -> WriteEntry(f0, p, File(<<0>>))
          [] kind = "symlink_dir" ->
                 WriteEntry(WriteEntry(MkdirP(f0, link_target), at_target, File(<<0>>)),
                            p, Symlink(link_target))
          [] kind = "symlink_file" ->
                 WriteEntry(WriteEntry(f0, link_target, File(<<0>>)), p, Symlink(link_target))
          [] kind = "symlink_dangling" -> WriteEntry(f0, p, Symlink(link_target)))

\* the summary lines of a successful build; nothing is printed before that
NoSummary ==
    [printed |-> FALSE, bundle_dir |-> NoPath, artifact |-> NoPath, checksum |-> NoPath,
     warning |-> FALSE]

\* no second invocation of a build script is running
NoPeer == [pc |-> "absent", strategy |-> "none", platform_tag |-> <<>>, tmp_dir |-> NoPath]

\* a second invocation, of the venv or the pyinstaller script, about to start
Peers ==
    {[pc |-> "start", strategy |-> s, platform_tag |-> t, tmp_dir |-> NoPath] :
        s \in {"venv", "pyinstaller"}, t \in PlatformTags}

InitWith(argset, environs, modules, priors, peers) ==
    /\ args \in {a \in argset : ValidArgs(a)}
    /\ environ \in environs
    /\ init_py \in modules
    /\ prior \in priors
    /\ peer \in peers
    /\ fs = IF prior.built THEN PriorFS(args, prior.version)
            ELSE IF prior.stale # "none" THEN StaleFS(args, prior.stale)
            ELSE PristineFS
    /\ pc = "detect_version"
    /\ version = NoVersion
    /\ tmp_dir = NoPath
    /\ staging_root = NoPath
    /\ artifact_path = NoPath
    /\ checksum_path = NoPath
    /\ product_path = NoPath
    /\ site_packages = <<>>
    /\ raised = "none"
    /\ message = NoMessage
    /\ streams = NoStreams
    /\ stderr = <<>>
    /\ stdout = NoSummary
    /\ cmds = <<>>
    /\ created = 0
    /\ teardowns = 0
    /\ exit_status = -1
    /\ touched = [build |-> {}, peer |-> {}, late |-> {}]

Init == InitWith(ArgsOf(PlatformTags), Environs, ModulesUpTo(1), Priors, {NoPeer})

-----------------------------------------------------------------------------
(* build_pkg_installer() / build_bundle() and main(), one action per call *)

strategy == args.strategy

artifacts_dir == artifacts_dir_of(strategy)

venv_dir == venv_dir_of(strategy, tmp_dir)

\* the paths that a step created, removed, replaced or wrote into
Touched(f, g) ==
    {p \in DOMAIN f \cup DOMAIN g : p \notin DOMAIN f \/ p \notin DOMAIN g \/ f[p] # g[p]}

\* the footprint of this build's step: what it read and what it changed
\* (late: the part of the footprint that falls after the temporary directory's exit)
Track(reads) ==
    touched' = [touched EXCEPT !.build = @ \cup reads \cup Touched(fs, fs'),
                               !.late = IF teardowns > 0
                                        THEN @ \cup reads \cup Touched(fs, fs')
                                        ELSE @]

\* an exception that bypasses the context manager
Unwind_past_exit == "main_except"

\* where control goes when an exception leaves the current statement
Unwind == IF tmp_dir # NoPath THEN "exit_tmp" ELSE "main_except"

\* a helper returned or raised; io is what its failing command wrote
Apply(res, next_pc, io) ==
    /\ fs' = res.fs
    /\ cmds' = cmds \o res.log
    /\ raised' = res.exc
    /\ message' = res.msg
    /\ streams' = IF res.log # <<>> /\ res.log[Len(res.log)].rc # 0 THEN io ELSE streams
    /\ pc' = IF res.exc = "none" THEN next_pc ELSE Unwind

\* version = _detect_version()
DetectVersion ==
    /\ pc = "detect_version"
    /\ LET r == detect_version(strategy, environ, init_py)
       IN  IF r.ok
           THEN /\ version' = r.value
                /\ pc' = "mkdir_artifacts"
                /\ raised' = raised
                /\ message' = message
           ELSE /\ version' = version
                /\ pc' = "main_except"
                /\ raised' = r.exc
                /\ message' = detect_version_error(init_py)
    /\ UNCHANGED << args, environ, init_py, fs, tmp_dir, staging_root, artifact_path,
                    checksum_path, product_path, site_packages, prior, cmds, created,
                    teardowns, exit_status, streams, stderr, stdout, peer >>
    /\ Track({})

\* artifacts_dir.mkdir(parents=True, exist_ok=True)
MakeArtifactsDir ==
    /\ pc = "mkdir_artifacts"
    /\ fs' = MkdirP(fs, artifacts_dir)
    /\ pc' = "enter_tmp"
    /\ UNCHANGED << args, environ, init_py, version, tmp_dir, staging_root, artifact_path,
                    checksum_path, product_path, site_packages, prior, raised, cmds,
                    created, teardowns, exit_status, message, streams, stderr, stdout, peer >>
    /\ Track({})

\* with tempfile.TemporaryDirectory(prefix=...) as tmp_dir_str:
EnterTemporaryDirectory ==
    /\ pc = "enter_tmp"
    /\ tmp_dir' = mkdtemp(fs, strategy, <<"x7k2", "p9q4">>)
    /\ fs' = MkdirP(fs, mkdtemp(fs, strategy, <<"x7k2", "p9q4">>))
    /\ created' = created + 1
    /\ pc' = "create_virtualenv"
    /\ UNCHANGED << args, environ, init_py, version, staging_root, artifact_path,
                    checksum_path, product_path, site_packages, prior, raised, cmds,
                    teardowns, exit_status, message, streams, stderr, stdout, peer >>
    /\ Track({})

\* python_path = _create_virtualenv(venv_dir)
CreateVirtualenv ==
    /\ pc = "create_virtualenv"
    /\ \E rc_venv \in ExitCodes, rc_pip \in ExitCodes, io \in Streams :
          Apply(create_virtualenv(strategy, fs, venv_dir, rc_venv, rc_pip, io),
                "install_project", io)
    /\ UNCHANGED << args, environ, init_py, version, tmp_dir, staging_root, artifact_path,
                    checksum_path, product_path, site_packages, prior, created,
                    teardowns, exit_status, stderr, stdout, peer >>
    /\ Track({})

\* _install_project(python_path, extras)
InstallProject ==
    /\ pc = "install_project"
    /\ \E rc_project \in ExitCodes, rc_aux \in ExitCodes, io \in Streams :
          Apply(install_project(strategy, fs, venv_dir, rc_project, rc_aux, io),
                CASE strategy \in InstallerStrategies -> "create_package_root"
                  [] strategy = "venv"                -> "stage_bundle"
                  [] strategy = "pyinstaller"         -> "invoke_pyinstaller"
                  [] strategy = "zipapp"              -> "discover_site_packages",
                io)
    /\ UNCHANGED << args, environ, init_py, version, tmp_dir, staging_root, artifact_path,
                    checksum_path, product_path, site_packages, prior, created,
                    teardowns, exit_status, stderr, stdout, peer >>
    /\ Track({})

\* pkg_root = _create_package_root(venv_dir, platform_tag=..., staging_dir=tmp_dir)
CreatePackageRoot ==
    /\ pc = "create_package_root"
    /\ fs' = create_package_root(strategy, fs, venv_dir, tmp_dir)
    /\ staging_root' = Join(tmp_dir, <<"pkg_root">>)
    /\ pc' = IF strategy = "pkg" /\ args.use_distribution
             THEN "create_distribution_xml" ELSE "create_pkg_installer"
    /\ UNCHANGED << args, environ, init_py, version, tmp_dir, artifact_path,
                    checksum_path, product_path, site_packages, prior, raised, cmds,
                    created, teardowns, exit_status, message, streams, stderr, stdout, peer >>
    /\ Track({})

\* if use_distribution: distribution_xml = _create_distribution_xml(tmp_dir, version=version)
CreateDistributionXml ==
    /\ pc = "create_distribution_xml"
    /\ fs' = create_distribution_xml(strategy, fs, tmp_dir, version, args.platform_tag)
    /\ pc' = "create_pkg_installer"
    /\ UNCHANGED << args, environ, init_py, version, tmp_dir, staging_root, artifact_path,
                    checksum_path, product_path, site_packages, prior, raised, cmds,
                    created, teardowns, exit_status, message, streams, stderr, stdout, peer >>
    /\ Track({})

\* pkg_path = _create_pkg_installer(...)
CreatePkgInstaller ==
    /\ pc = "create_pkg_installer"
    /\ \E rc_which \in ExitCodes,
          rc_which2 \in IF strategy = "pkgnew" THEN ExitCodes ELSE {0},
          comp \in IF strategy = "pkgnew" THEN ComponentOutcomes ELSE {NoOutcome},
          out \in ToolOutcomes, io \in Streams :
          LET res == IF strategy = "pkg"
                     THEN create_pkg_installer_pkg(fs, version, args.platform_tag,
                                                   artifacts_dir, rc_which, out, io)
                     ELSE create_pkg_installer_pkgnew(fs, version, args.platform_tag,
                                                      artifacts_dir, tmp_dir,
                                                      rc_which, rc_which2, comp, out, io)
          IN  /\ Apply(res, "exit_tmp", io)
              /\ artifact_path' = res.ret
              /\ stdout' = [stdout EXCEPT !.warning =
                                /\ strategy = "pkgnew"
                                /\ Ran_in(res.log, "pkgbuild")
                                /\ component_size_warning(comp)]
    /\ UNCHANGED << args, environ, init_py, version, tmp_dir, staging_root,
                    checksum_path, product_path, site_packages, prior, created,
                    teardowns, exit_status, stderr, peer >>
    /\ Track({})

\* product_path = _invoke_pyinstaller(python_path, app_name=..., dist_dir=..., onefile=...)
InvokePyinstaller ==
    /\ pc = "invoke_pyinstaller"
    /\ \E rc \in ExitCodes, produced \in BOOLEAN, io \in Streams :
          LET res == invoke_pyinstaller(fs, Join(tmp_dir, <<"dist">>), args.onefile,
                                        rc, produced, io)
          IN  /\ Apply(res, "stage_bundle", io)
              /\ product_path' = res.ret
    /\ UNCHANGED << args, environ, init_py, version, tmp_dir, staging_root, artifact_path,
                    checksum_path, site_packages, prior, created, teardowns, exit_status,
                    stderr, stdout, peer >>
    /\ Track({})

\* site_packages = _discover_site_packages(python_path)
DiscoverSitePackages ==
    /\ pc = "discover_site_packages"
    /\ \E rc \in ExitCodes, n_lines \in {0, 1}, io \in Streams :
          LET res == discover_site_packages(fs, venv_dir, rc, n_lines, io)
          IN  /\ Apply(res, "build_zipapp", io)
              /\ site_packages' = res.ret
    /\ UNCHANGED << args, environ, init_py, version, tmp_dir, staging_root, artifact_path,
                    checksum_path, product_path, prior, created, teardowns, exit_status,
                    stderr, stdout, peer >>
    /\ Track({})

\* zipapp_path = _build_zipapp(python_path, site_packages, tmp_dir)
BuildZipapp ==
    /\ pc = "build_zipapp"
    /\ \E rc \in ExitCodes, produced \in BOOLEAN, io \in Streams :
          LET res == build_zipapp(fs, site_packages, tmp_dir, rc, produced, io)
          IN  /\ Apply(res, "stage_bundle", io)
              /\ product_path' = res.ret
    /\ UNCHANGED << args, environ, init_py, version, tmp_dir, staging_root, artifact_path,
                    checksum_path, site_packages, prior, created, teardowns, exit_status,
                    stderr, stdout, peer >>
    /\ Track({})

\* staging_root = _stage_bundle(...)
StageBundle ==
    /\ pc = "stage_bundle"
    /\ LET root == staging_root_of(strategy, args.platform_tag)
           exc  == stage_bundle_raises(strategy, fs, root)
       IN  /\ fs' = CASE strategy = "venv"   -> stage_bundle_venv(fs, venv_dir, root)
                      [] strategy = "zipapp" -> stage_bundle_zipapp(fs, product_path, root)
                      [] strategy = "pyinstaller" ->
                             stage_bundle_pyinstaller(fs, product_path, root, args.onefile)
           /\ staging_root' = IF exc = "none" THEN root ELSE staging_root
           /\ raised' = exc
           /\ message' = IF exc = "none" THEN message ELSE os_error(exc)
    /\ pc' = "exit_tmp"
    /\ UNCHANGED << args, environ, init_py, version, tmp_dir, artifact_path,
                    checksum_path, product_path, site_packages, prior, cmds,
                    created, teardowns, exit_status, streams, stderr, stdout, peer >>
    /\ Track({})

\* leaving the block without removing the directory (mkdtemp with no cleanup)
ExitTemporaryDirectory_keeping_tree ==
    /\ pc = "exit_tmp"
    /\ tmp_dir' = NoPath
    /\ teardowns' = teardowns + 1
    /\ pc' = IF raised # "none" THEN "main_except"
             ELSE IF strategy \in ArchiveStrategies THEN "create_tarball"
             ELSE "emit_sha256"
    /\ UNCHANGED << args, environ, init_py, fs, version, staging_root, artifact_path,
                    checksum_path, product_path, site_packages, prior, raised, cmds,
                    created, exit_status, message, streams, stderr, stdout, peer >>
    /\ Track({})

\* TemporaryDirectory.__exit__: runs when the block is left, by its end or by an exception
ExitTemporaryDirectory ==
    /\ pc = "exit_tmp"
    /\ fs' = RmTree(fs, tmp_dir)
    /\ tmp_dir' = NoPath
    /\ teardowns' = teardowns + 1
    /\ pc' = IF raised # "none" THEN "main_except"
             ELSE IF strategy \in ArchiveStrategies THEN "create_tarball"
             ELSE "emit_sha256"
    /\ UNCHANGED << args, environ, init_py, version, staging_root, artifact_path,
                    checksum_path, product_path, site_packages, prior, raised, cmds,
                    created, exit_status, message, streams, stderr, stdout, peer >>
    /\ Track({})

\* archive_path = _create_tarball(staging_root)
CreateTarball ==
    /\ pc = "create_tarball"
    /\ \E gz_bytes \in ArtifactBytes \ {<<>>} :
          fs' = create_tarball(strategy, fs, staging_root, gz_bytes)
    /\ artifact_path' = archive_path_of(staging_root)
    /\ pc' = "emit_sha256"
    /\ UNCHANGED << args, environ, init_py, version, tmp_dir, staging_root,
                    checksum_path, product_path, site_packages, prior, raised, cmds,
                    created, teardowns, exit_status, message, streams, stderr, stdout, peer >>
    /\ Track({p \in DOMAIN fs : IsUnder(p, staging_root)})

\* checksum_path = _emit_sha256(pkg_path)
EmitSha256 ==
    /\ pc = "emit_sha256"
    /\ fs' = emit_sha256(fs, artifact_path)
    /\ checksum_path' = checksum_path_of(artifact_path)
    /\ pc' = "summary"
    /\ UNCHANGED << args, environ, init_py, version, tmp_dir, staging_root, artifact_path,
                    product_path, site_packages, prior, raised, cmds, created,
                    teardowns, exit_status, message, streams, stderr, stdout, peer >>
    /\ Track({artifact_path})

\* the summary lines the build function prints before it returns
summary(s, root, artifact, checksum) ==
    [printed |-> TRUE,
     bundle_dir |-> IF s \in ArchiveStrategies THEN root ELSE NoPath,
     artifact |-> artifact,
     checksum |-> checksum,
     warning |-> FALSE]

\* the summary is printed, the build function returns and main() returns
ReturnFromMain ==
    /\ pc = "summary"
    /\ stdout' = [summary(strategy, staging_root, artifact_path, checksum_path)
                      EXCEPT !.warning = stdout.warning]
    /\ pc' = "exited"
    /\ exit_status' = 0
    /\ UNCHANGED << args, environ, init_py, fs, version, tmp_dir, staging_root,
                    artifact_path, checksum_path, product_path, site_packages, prior,
                    raised, cmds, created, teardowns, message, streams, stderr, peer >>
    /\ Track({})

\* except BuildError as exc: print(f"\nERROR: {exc}", file=sys.stderr); sys.exit(1)
MainExcept ==
    /\ pc = "main_except"
    /\ raised = "BuildError"
    /\ stderr' = <<"\nERROR: ">> \o message
    /\ pc' = "exited"
    /\ exit_status' = 1
    /\ UNCHANGED << args, environ, init_py, fs, version, tmp_dir, staging_root,
                    artifact_path, checksum_path, product_path, site_packages, prior,
                    raised, cmds, created, teardowns, message, streams, stdout, peer >>
    /\ Track({})

\* an exception that is no BuildError passes main(): the interpreter prints the
\* traceback and exits with status 1
UncaughtException ==
    /\ pc = "main_except"
    /\ raised # "BuildError"
    /\ stderr' = <<"Traceback (most recent call last):", raised, ": ">> \o message
    /\ pc' = "exited"
    /\ exit_status' = 1
    /\ UNCHANGED << args, environ, init_py, fs, version, tmp_dir, staging_root,
                    artifact_path, checksum_path, product_path, site_packages, prior,
                    raised, cmds, created, teardowns, message, streams, stdout, peer >>
    /\ Track({})

Next ==
    \/ DetectVersion
    \/ MakeArtifactsDir
    \/ EnterTemporaryDirectory
    \/ CreateVirtualenv
    \/ InstallProject
    \/ CreatePackageRoot
    \/ CreateDistributionXml
    \/ CreatePkgInstaller
    \/ InvokePyinstaller
    \/ DiscoverSitePackages
    \/ BuildZipapp
    \/ StageBundle
    \/ ExitTemporaryDirectory
    \/ CreateTarball
    \/ EmitSha256
    \/ ReturnFromMain
    \/ MainExcept
    \/ UncaughtException

Spec == Init /\ [][Next]_vars

\* the same program over longer version modules: each script once, on one
\* platform tag, in one-file mode and with the distribution XML
InitVersion ==
    InitWith({a \in ArgsOf({ <<"linux-x64">> }) :
                  a.onefile /\ (a.strategy = "pkg" => a.use_distribution)},
             Environs, ModulesUpTo(MaxNodes), {NoPrior}, {NoPeer})

SpecVersion == InitVersion /\ [][Next]_vars

\* the same program on a host where something is in the way: every script, on
\* one platform tag, with version 1.0 in the version module
InitStale ==
    InitWith(ArgsOf({ <<"linux-x64">> }), {[VERSION |-> Unset]},
             {[exists |-> TRUE, body |-> << AssignVersion(V1) >>]}, StalePriors, {NoPeer})

SpecStale == InitStale /\ [][Next]_vars

-----------------------------------------------------------------------------
(* A second invocation of a build script on the same host, running through *)
(* its phases without a failure while the first one runs.  It runs the     *)
(* same helper functions; what it creates is born "peer".                  *)

\* the filesystem as the peer's code sees it: its own entries are "self"
Mask(f) ==
    [p \in DOMAIN f |->
        CASE f[p].born = "self" -> [f[p] EXCEPT !.born = "other"]
          [] f[p].born = "peer" -> [f[p] EXCEPT !.born = "self"]
          [] OTHER              -> f[p]]

\* and back, as the first build sees it
Unmask(f) ==
    [p \in DOMAIN f |->
        CASE f[p].born = "self"  -> [f[p] EXCEPT !.born = "peer"]
          [] f[p].born = "other" -> [f[p] EXCEPT !.born = "self"]
          [] OTHER               -> f[p]]

main_vars == << args, environ, init_py, pc, version, tmp_dir, staging_root,
                artifact_path, checksum_path, product_path, site_packages, prior,
                raised, cmds, created, teardowns, exit_status, message, streams,
                stderr, stdout >>

TrackPeer(reads) ==
    touched' = [touched EXCEPT !.peer = @ \cup reads \cup Touched(fs, fs')]

peer_venv_dir == venv_dir_of(peer.strategy, peer.tmp_dir)

peer_root == staging_root_of(peer.strategy, peer.platform_tag)

\* artifacts_dir.mkdir(...) and the entry of the with block
PeerEnter ==
    /\ peer.pc = "start"
    /\ LET tmp == mkdtemp(fs, peer.strategy, <<"p9q4", "x7k2">>)
       IN  /\ fs' = Unmask(MkdirP(MkdirP(Mask(fs), artifacts_dir_of(peer.strategy)), tmp))
           /\ peer' = [peer EXCEPT !.pc = "provision", !.tmp_dir = tmp]
    /\ UNCHANGED main_vars
    /\ TrackPeer({})

\* _create_virtualenv and _install_project, every command exiting 0
PeerProvision ==
    /\ peer.pc = "provision"
    /\ LET f1 == create_virtualenv(peer.strategy, Mask(fs), peer_venv_dir, 0, 0, NoStreams).fs
           f2 == install_project(peer.strategy, f1, peer_venv_dir, 0, 0, NoStreams).fs
       IN  fs' = Unmask(f2)
    /\ peer' = [peer EXCEPT !.pc = IF peer.strategy = "pyinstaller" THEN "freeze" ELSE "stage"]
    /\ UNCHANGED main_vars
    /\ TrackPeer({})

\* _invoke_pyinstaller in one-file mode, exiting 0 with its product written
PeerFreeze ==
    /\ peer.pc = "freeze"
    /\ fs' = Unmask(invoke_pyinstaller(Mask(fs), Join(peer.tmp_dir, <<"dist">>),
                                       TRUE, 0, TRUE, NoStreams).fs)
    /\ peer' = [peer EXCEPT !.pc = "stage"]
    /\ UNCHANGED main_vars
    /\ TrackPeer({})

\* _stage_bundle
PeerStage ==
    /\ peer.pc = "stage"
    /\ fs' = Unmask(IF peer.strategy = "venv"
                    THEN stage_bundle_venv(Mask(fs), peer_venv_dir, peer_root)
                    ELSE stage_bundle_pyinstaller(
                             Mask(fs), Join(Join(peer.tmp_dir, <<"dist">>), APP_NAME),
                             peer_root, TRUE))
    /\ peer' = [peer EXCEPT !.pc = "exit"]
    /\ UNCHANGED main_vars
    /\ TrackPeer({})

\* the end of the with block
PeerExit ==
    /\ peer.pc = "exit"
    /\ fs' = RmTree(fs, peer.tmp_dir)
    /\ peer' = [peer EXCEPT !.pc = "package", !.tmp_dir = NoPath]
    /\ UNCHANGED main_vars
    /\ TrackPeer({})

\* _create_tarball and _emit_sha256
PeerPackage ==
    /\ peer.pc = "package"
    /\ fs' = Unmask(emit_sha256(create_tarball(peer.strategy, Mask(fs), peer_root, <<1>>),
                                archive_path_of(peer_root)))
    /\ peer' = [peer EXCEPT !.pc = "done"]
    /\ UNCHANGED main_vars
    /\ TrackPeer({p \in DOMAIN fs : IsUnder(p, peer_root)})

NextConcurrent ==
    \/ DetectVersion
    \/ MakeArtifactsDir
    \/ EnterTemporaryDirectory
    \/ CreateVirtualenv
    \/ InstallProject
    \/ CreatePackageRoot
    \/ CreateDistributionXml
    \/ CreatePkgInstaller
    \/ InvokePyinstaller
    \/ DiscoverSitePackages
    \/ BuildZipapp
    \/ StageBundle
    \/ ExitTemporaryDirectory
    \/ CreateTarball
    \/ EmitSha256
    \/ ReturnFromMain
    \/ MainExcept
    \/ UncaughtException
    \/ PeerEnter
    \/ PeerProvision
    \/ PeerFreeze
    \/ PeerStage
    \/ PeerExit
    \/ PeerPackage

\* two invocations at once: the first of any script, on one platform tag, with
\* a version it can resolve and nothing left by an earlier build
InitConcurrent ==
    InitWith(ArgsOf({ <<"linux-x64">> }), {[VERSION |-> Unset]},
             {[exists |-> TRUE, body |-> << AssignVersion(V1) >>]}, {NoPrior}, Peers)

SpecConcurrent == InitConcurrent /\ [][NextConcurrent]_vars

-----------------------------------------------------------------------------
(* Vocabulary of the properties *)

BuildEnded == pc \in {"main_except", "exited"}

Succeeded == pc = "exited" /\ exit_status = 0

Failed == pc = "exited" /\ exit_status = 1

\* the filesystem main() started on
InitialFS ==
    IF prior.built THEN PriorFS(args, prior.version)
    ELSE IF prior.stale # "none" THEN StaleFS(args, prior.stale)
    ELSE PristineFS

WorkspaceGone == \A p \in DOMAIN fs : ~IsUnder(p, mkdtemp_path(strategy))

NoSideEffect == fs = InitialFS /\ cmds = <<>> /\ created = 0

VersionOverride == environ.VERSION.present /\ environ.VERSION.value # EmptyString

\* positions of the top-level statements `__version__ = "<literal>"`
LiteralAssignments ==
    {i \in 1..Len(init_py.body) :
        /\ init_py.body[i].type = "Assign"
        /\ init_py.body[i].targets = <<"__version__">>
        /\ init_py.body[i].is_str}

FirstLiteral ==
    init_py.body[CHOOSE i \in LiteralAssignments : \A j \in LiteralAssignments : i <= j].value

HasLiteral == init_py.exists /\ LiteralAssignments # {}

InstallerName(ver) ==
    <<"mycli", "-">> \o ver \o <<"-">> \o args.platform_tag \o <<".", "pkg">>

BundleName == <<"mycli", "-">> \o args.platform_tag

ArchiveName == BundleName \o <<".", "tar", ".", "gz">>

\* the path the build's final artifact is to be written to
FinalOutputPath ==
    Join(PROJECT_ROOT \o << <<"dist">> >>,
         IF strategy \in InstallerStrategies THEN <<"pkg_artifacts">> ELSE <<"artifacts">>)
        \o << IF strategy \in InstallerStrategies THEN InstallerName(version) ELSE ArchiveName >>

\* the directory the build's final artifact is to be written to
FinalArtifactsDir == Parent(FinalOutputPath)

\* the staged bundle directory of an archive build
BundleDir == Join(FinalArtifactsDir, BundleName)

FinalChecksumPath == Join(FinalArtifactsDir, Name(FinalOutputPath) \o <<".", "sha256">>)

\* the freezer's work directory and spec file
FreezerBuildDir == PROJECT_ROOT \o << <<"build">> >>

FreezerSpecFile == PROJECT_ROOT \o << <<"mycli", ".", "spec">> >>

\* the paths the build created or changed that exist
Leftovers == {p \in DOMAIN fs : p \notin DOMAIN InitialFS \/ fs[p] # InitialFS[p]}

\* the artifacts directory and the directories above it
ArtifactsDirChain(p) == IsUnder(FinalArtifactsDir, p)

Ran(tool) == \E i \in 1..Len(cmds) : cmds[i].tool = tool

ExitedNonZero(tool) == \E i \in 1..Len(cmds) : cmds[i].tool = tool /\ cmds[i].rc # 0

LastCmd == cmds[Len(cmds)]

\* part occurs in text as a run of consecutive tokens
Contains(text, part) ==
    \E i \in 0..(Len(text) - Len(part)) : SubSeq(text, i + 1, i + Len(part)) = part

Mentions(text, token) == \E i \in 1..Len(text) : text[i] = token

\* the external commands of each script, in the order of its source
PhaseOrder ==
    <<"venv", "pip-upgrade", "pip-install-project">> \o
    (CASE strategy = "pkg"         -> <<"which-pkgbuild", "pkgbuild">>
       [] strategy = "pkgnew"      -> <<"which-pkgbuild", "which-productbuild",
                                        "pkgbuild", "productbuild">>
       [] strategy = "venv"        -> <<>>
       [] strategy = "pyinstaller" -> <<"pip-install-pyinstaller", "PyInstaller">>
       [] strategy = "zipapp"      -> <<"pip-install-shiv", "sysconfig", "shiv">>)

\* how many commands must have exited 0 before the script stages its layout
CommandsBeforeStaging == IF strategy \in InstallerStrategies THEN 3 ELSE Len(PhaseOrder)

\* the product the backend is expected to leave in the workspace
ExpectedProduct ==
    IF strategy = "pyinstaller" THEN tmp_dir \o << <<"dist">>, <<"mycli">> >>
    ELSE tmp_dir \o << <<"mycli", ".", "pyz">> >>

Backend == IF strategy = "pyinstaller" THEN "PyInstaller" ELSE "shiv"

LowerHex == {"0", "1", "2", "3", "4", "5", "6", "7", "8", "9", "a", "b", "c", "d", "e", "f"}

-----------------------------------------------------------------------------
(* Properties *)

\* C1: in every strategy, once the temporary workspace has been created, nothing
\* of it exists when the build function has returned or raised, whichever phase raised.
C1_WorkspaceDestroyed ==
    (BuildEnded /\ created > 0) => (WorkspaceGone /\ tmp_dir = NoPath)

\* C1 witness: a build that failed in a phase inside the workspace and has ended
C1_Witness ==
    /\ pc = "exited" /\ raised = "BuildError" /\ created = 1
    /\ Len(cmds) > 2 /\ WorkspaceGone

\* C2 as stated: every terminated run has exactly one workspace teardown,
\* a failure of version resolution included.
C2_Original == pc = "exited" => teardowns = 1

\* C2 amended: every terminated run has as many teardowns as workspace creations:
\* exactly one when version resolution succeeded (whichever later phase raised),
\* none when version resolution raised, since no workspace was created then.
C2_TeardownOncePerWorkspace ==
    /\ teardowns <= created /\ created <= 1
    /\ pc = "exited" => /\ teardowns = created
                        /\ created = IF version # NoVersion THEN 1 ELSE 0

\* C2 witness: a run that raised after the workspace was entered, torn down once
C2_Witness ==
    pc = "exited" /\ raised # "none" /\ version # NoVersion /\ teardowns = 1

\* C3 as stated: after any failed build (its version resolved, so that the final
\* output path is known) no file exists at the final output path, also when an
\* earlier build left one there and when the tool wrote it and then failed.
C3_NoOutputAfterFailure ==
    (Failed /\ version # NoVersion) => ~Exists(fs, FinalOutputPath)

\* C4 as stated: in every strategy a non-empty VERSION is the resolved version;
\* without one, the string literal assigned to __version__ is.
C4_Original ==
    (pc # "detect_version" /\ version # NoVersion) =>
        /\ VersionOverride => version = environ.VERSION.value
        /\ (~VersionOverride /\ HasLiteral) => version = FirstLiteral

\* C4 amended: in the pkg and pkgnew builds a non-empty VERSION is the resolved
\* version whatever the declaration says; the venv, pyinstaller and zipapp builds
\* do not read VERSION. Where no override applies, the resolved version is the
\* value of the first top-level assignment of a string literal to __version__.
C4_VersionSource ==
    pc # "detect_version" =>
        /\ (strategy \in {"pkg", "pkgnew"} /\ VersionOverride)
               => version = environ.VERSION.value
        /\ (~(strategy \in {"pkg", "pkgnew"} /\ VersionOverride) /\ HasLiteral)
               => version = FirstLiteral

\* C4 witness: an installer build whose VERSION differs from the declared literal
C4_Witness ==
    /\ pc = "mkdir_artifacts" /\ strategy = "pkgnew"
    /\ environ.VERSION = EnvVar(V2) /\ HasLiteral /\ FirstLiteral = V1
    /\ version = V2

\* C5: with VERSION unset or empty and no string literal assigned to __version__
\* (no assignment at all, or a value that is no string literal), resolution fails
\* with BuildError before any side effect: no directory, no workspace, no command.
C5_UnresolvableVersionFails ==
    (pc # "detect_version" /\ ~VersionOverride /\ ~HasLiteral) =>
        /\ raised = "BuildError"
        /\ version = NoVersion
        /\ BuildEnded
        /\ NoSideEffect

\* C5 witness: __version__ is assigned a non-literal and the build has failed
C5_Witness ==
    /\ pc = "exited" /\ exit_status = 1 /\ raised = "BuildError"
    /\ ~VersionOverride
    /\ init_py.exists /\ init_py.body = << AssignVersionNonStr >>
    /\ NoSideEffect

\* C6 as stated: the resolver returns a non-empty string, or the build fails
\* before any side effect.
C6_VersionNonEmpty ==
    pc # "detect_version" =>
        \/ version # NoVersion /\ version # EmptyString
        \/ raised = "BuildError" /\ BuildEnded /\ NoSideEffect

\* C7 as stated: in every strategy the artifact is named
\* <app>-<version>-<platform_tag>.<ext>, ext being pkg or tar.gz.
C7_Original ==
    artifact_path # NoPath =>
        Name(artifact_path) =
            <<"mycli", "-">> \o version \o <<"-">> \o args.platform_tag
                \o (IF strategy \in InstallerStrategies
                    THEN <<".", "pkg">> ELSE <<".", "tar", ".", "gz">>)

\* C7 amended: the installer strategies name the artifact
\* mycli-<version>-<platform_tag>.pkg, so an earlier build of another version is at
\* another path; the archive strategies name it mycli-<platform_tag>.tar.gz, without
\* the version, so builds that differ only in version write the same path.
C7_ArtifactName ==
    artifact_path # NoPath =>
        /\ artifact_path = FinalOutputPath
        /\ (prior.built /\ prior.version # version) =>
              IF strategy \in InstallerStrategies
              THEN /\ FinalOutputPath # Join(Parent(FinalOutputPath), InstallerName(prior.version))
                   /\ IsFile(fs, Join(Parent(FinalOutputPath), InstallerName(prior.version)))
              ELSE Name(artifact_path) = ArchiveName

\* C7 witness: an installer was built next to the installer of another version
C7_Witness ==
    /\ Succeeded /\ strategy = "pkg" /\ prior.built /\ prior.version # version
    /\ Name(artifact_path) = InstallerName(version)
    /\ IsFile(fs, artifact_path)

\* C8: after every successful build the checksum file is at the artifact's path with
\* .sha256 appended, and holds the lowercase hex digest, two spaces, the artifact's
\* file name without directory, and one newline.
C8_ChecksumRecord ==
    Succeeded =>
        LET expected == Join(Parent(artifact_path), Name(artifact_path) \o <<".", "sha256">>)
            name == Name(artifact_path)
        IN  /\ checksum_path = expected
            /\ IsFile(fs, expected)
            /\ LET line == fs[expected].data
               IN  /\ Len(line) = 2 + 2 + Len(name) + 1
                   /\ line[1] \in LowerHex /\ line[2] \in LowerHex
                   /\ line[3] = " " /\ line[4] = " "
                   /\ SubSeq(line, 5, 4 + Len(name)) = name
                   /\ line[Len(line)] = "\n"

\* C8 witness: a successful archive build, whose artifact name has two suffixes
C8_Witness ==
    /\ Succeeded /\ strategy = "venv"
    /\ Name(checksum_path) = ArchiveName \o <<".", "sha256">>
    /\ IsFile(fs, checksum_path)

\* C9: the digest _emit_sha256 records, fed chunk by chunk, is the digest of the
\* artifact's whole byte sequence, for every artifact length.
C9_ChunkedDigest ==
    (pc \in {"summary", "exited"} /\ checksum_path # NoPath) =>
        SubSeq(fs[checksum_path].data, 1, 2)
            = hexdigest(sha256_update(sha256_new, fs[artifact_path].data))

\* C9 witness: a checksum was emitted for an artifact of more than one chunk
\* whose last chunk is short
C9_Witness ==
    /\ pc = "summary" /\ checksum_path # NoPath
    /\ Len(fs[artifact_path].data) > CHUNK_SIZE
    /\ Len(fs[artifact_path].data) % CHUNK_SIZE # 0

\* C10 as stated: in every archive strategy each entry name of the .tar.gz starts
\* with the bundle name mycli-<platform_tag>.
C10_Original ==
    (strategy \in ArchiveStrategies /\ artifact_path # NoPath) =>
        \A m \in fs[artifact_path].names : m[1] = BundleName

\* C10 amended: in the zipapp and pyinstaller strategies each entry name of the
\* .tar.gz starts with the bundle name mycli-<platform_tag>; the venv strategy adds
\* the staged root's children under their own names, so each of its entry names
\* starts with bin or libexec.
C10_ArchiveRoots ==
    (strategy \in ArchiveStrategies /\ artifact_path # NoPath) =>
        /\ fs[artifact_path].names # {}
        /\ \A m \in fs[artifact_path].names :
              IF strategy = "venv"
              THEN m[1] \in { <<"bin">>, <<"libexec">> }
              ELSE m[1] = BundleName

\* C10 witness: a zipapp archive with the launcher below the bundle name
C10_Witness ==
    /\ strategy = "zipapp" /\ artifact_path # NoPath
    /\ << BundleName, <<"bin">>, <<"mycli">> >> \in fs[artifact_path].names

\* C11: in every archive strategy no entry name of the produced archive is a host
\* path: no name starts at the filesystem root, lies below the artifacts directory
\* or the workspace, and each is the path of something below the staged root,
\* taken relative to that root (below the root's own name, or below nothing in
\* the venv strategy).
C11_RelativeEntryNames ==
    (strategy \in ArchiveStrategies /\ artifact_path # NoPath) =>
        \A m \in fs[artifact_path].names :
            /\ m[1] \notin {p[1] : p \in DOMAIN fs}
            /\ ~IsUnder(m, FinalArtifactsDir)
            /\ ~IsUnder(m, mkdtemp_path(strategy))
            /\ \E q \in DOMAIN fs :
                  /\ IsUnder(q, staging_root)
                  /\ m = (IF strategy = "venv" THEN <<>> ELSE << BundleName >>)
                             \o SubSeq(q, Len(staging_root) + 1, Len(q))

\* C11 witness: an archive was written from a staged root that lies three
\* directories below the filesystem root, and holds a launcher two names deep
\* or deeper
C11_Witness ==
    /\ strategy \in ArchiveStrategies /\ artifact_path # NoPath
    /\ Len(staging_root) = 4
    /\ \E m \in fs[artifact_path].names : Len(m) >= 2 /\ m[Len(m)] = <<"mycli">>

\* what counts as intermediate state in C20: every path but the final artifact and
\* checksum file of either invocation, the artifacts directories with the
\* directories above them, and the host's temporary directory itself
Intermediate(p) ==
    LET peer_archive == Join(artifacts_dir_of(peer.strategy),
                             <<"mycli", "-">> \o peer.platform_tag \o <<".", "tar", ".", "gz">>)
        Checksum(a) == Join(Parent(a), Name(a) \o <<".", "sha256">>)
    IN  /\ p \notin {FinalOutputPath, Checksum(FinalOutputPath),
                     peer_archive, Checksum(peer_archive)}
        /\ ~IsUnder(FinalArtifactsDir, p)
        /\ ~IsUnder(artifacts_dir_of(peer.strategy), p)
        /\ p # << <<"tmp">> >>

\* C20 as stated: for every interleaving of two build invocations (same or
\* different strategy, same or different platform tag), no intermediate path is
\* read or written by both.
C20_NoSharedIntermediate ==
    \A p \in touched.build \cap touched.peer : ~Intermediate(p)

C13_MissingPkgbuild ==
    (strategy \in InstallerStrategies /\ ExitedNonZero("which-pkgbuild")) =>
        /\ raised = "BuildError"
        /\ Mentions(message, "pkgbuild")
        /\ ~Ran("pkgbuild") /\ ~Ran("productbuild")
        /\ ~Exists(fs, FinalOutputPath)
        /\ artifact_path = NoPath
        /\ pc = "exited" => (exit_status = 1 /\ Mentions(stderr, "pkgbuild"))

\* C13 witness: pkgbuild was not found by a build at whose final installer path an
\* earlier build of the same version had left an installer
C13_Witness ==
    /\ pc = "exited" /\ strategy \in InstallerStrategies
    /\ ExitedNonZero("which-pkgbuild")
    /\ prior.built /\ Exists(InitialFS, FinalOutputPath)
    /\ ~Exists(fs, FinalOutputPath)

\* C14: when the backend command (PyInstaller in one-file or directory mode, shiv)
\* exits 0 and its expected product is absent, the build fails with BuildError
\* before staging, and no archive or checksum is written; staging starts only with
\* the product present.
C14_AbsentProduct ==
    strategy \in {"pyinstaller", "zipapp"} =>
        /\ pc = "stage_bundle" =>
              (Exists(fs, ExpectedProduct) /\ product_path = ExpectedProduct)
        /\ (/\ cmds # <<>> /\ LastCmd = [tool |-> Backend, rc |-> 0]
            /\ tmp_dir # NoPath /\ ~Exists(fs, ExpectedProduct)) =>
              (raised = "BuildError" /\ pc = "exit_tmp")
        /\ (cmds # <<>> /\ LastCmd = [tool |-> Backend, rc |-> 0] /\ raised # "none") =>
              /\ raised = "BuildError"
              /\ staging_root = NoPath /\ artifact_path = NoPath /\ checksum_path = NoPath
              /\ \A p \in Leftovers :
                    p \notin {FinalOutputPath, FinalChecksumPath} /\ ~IsUnder(p, BundleDir)
              /\ pc = "exited" => exit_status = 1

\* C14 witness: PyInstaller exited 0 in directory mode without its product, and the
\* build has failed
C14_Witness ==
    /\ pc = "exited" /\ exit_status = 1
    /\ strategy = "pyinstaller" /\ ~args.onefile
    /\ cmds # <<>> /\ LastCmd = [tool |-> "PyInstaller", rc |-> 0]
    /\ raised = "BuildError" /\ staging_root = NoPath

\* C15: within one invocation each external command is started at most once; after
\* the first command that exits non-zero no command is started; the build then
\* fails and the process exits with status 1.
C15_NoRetry ==
    /\ \A i, j \in 1..Len(cmds) : cmds[i].tool = cmds[j].tool => i = j
    /\ \A i \in 1..Len(cmds) : cmds[i].rc # 0 =>
          /\ i = Len(cmds)
          /\ raised = "BuildError"
          /\ pc \in {"exit_tmp", "main_except", "exited"}
          /\ pc = "exited" => exit_status = 1

\* C15 witness: the third command of a build exited non-zero and the process exited
C15_Witness ==
    /\ pc = "exited" /\ exit_status = 1
    /\ Len(cmds) = 3 /\ cmds[3].rc # 0

\* C16 as stated: when an external command exits non-zero, the build error holds
\* the command, its exit code, and what the command wrote to its standard output
\* and standard error.
C16_Original ==
    (cmds # <<>> /\ LastCmd.rc # 0) =>
        /\ Contains(message, command_list(LastCmd.tool))
        /\ Mentions(message, ToString(LastCmd.rc))
        /\ Contains(message, streams.out)
        /\ Contains(message, streams.err)

\* C16 amended: when a command other than the two `which` probes exits non-zero,
\* the BuildError's message holds the exit code and the command; it holds what the
\* command wrote to its standard output and standard error only for the one
\* command that is run with captured streams, the site-packages query of the
\* zipapp script, and nothing of the streams of any other command (venv, pip,
\* PyInstaller, shiv, pkgbuild, productbuild), which go to the build's own
\* streams.  When a `which` probe exits non-zero the message is "<tool> not found
\* ..." and holds neither the command's exit code nor its streams.
C16_ErrorMessage ==
    (cmds # <<>> /\ LastCmd.rc # 0) =>
        /\ raised = "BuildError"
        /\ IF LastCmd.tool \in {"which-pkgbuild", "which-productbuild"}
           THEN /\ Len(message) = 2 /\ message[1] \in {"pkgbuild", "productbuild"}
                /\ ~Mentions(message, ToString(LastCmd.rc))
                /\ ~Contains(message, streams.err)
           ELSE /\ Contains(message, <<"Command failed with exit code ",
                                       ToString(LastCmd.rc), ": ">>
                                         \o command_list(LastCmd.tool))
                /\ IF LastCmd.tool = "sysconfig"
                   THEN /\ streams.out # <<>> =>
                              Contains(message, <<"\nSTDOUT:\n">> \o streams.out)
                        /\ streams.out = <<>> => ~Mentions(message, "\nSTDOUT:\n")
                        /\ Contains(message, <<"\nSTDERR:\n">> \o streams.err)
                   ELSE /\ streams.err # <<>>
                        /\ ~Contains(message, streams.err)
                        /\ streams.out # <<>> => ~Contains(message, streams.out)

\* C16 witness: the site-packages query failed after writing to both streams, and
\* the process has exited with both in its diagnostic
C16_Witness ==
    /\ pc = "exited" /\ strategy = "zipapp"
    /\ cmds # <<>> /\ LastCmd = [tool |-> "sysconfig", rc |-> 1]
    /\ streams.out # <<>> /\ streams.err # <<>>
    /\ Contains(stderr, streams.out) /\ Contains(stderr, streams.err)

\* C17: the external commands run in the order of the phases (environment
\* creation, packaging-baseline upgrade, project install, auxiliary tool install,
\* freeze or package), each only after every earlier one has exited 0; the layout
\* is staged only after the installs, the artifact written only after staging,
\* and the checksum computed only after the final artifact has been written, whose
\* bytes it is the digest of.
C17_PhaseOrder ==
    /\ Len(cmds) <= Len(PhaseOrder)
    /\ \A i \in 1..Len(cmds) : cmds[i].tool = PhaseOrder[i]
    /\ \A i \in 1..(Len(cmds) - 1) : cmds[i].rc = 0
    /\ staging_root # NoPath =>
          (Len(cmds) >= CommandsBeforeStaging
              /\ \A i \in 1..CommandsBeforeStaging : cmds[i].rc = 0)
    /\ artifact_path # NoPath =>
          /\ staging_root # NoPath
          /\ Len(cmds) = Len(PhaseOrder) /\ \A i \in 1..Len(cmds) : cmds[i].rc = 0
          /\ IsFile(fs, artifact_path)
    /\ checksum_path # NoPath =>
          /\ artifact_path # NoPath
          /\ IsFile(fs, checksum_path)
          /\ SubSeq(fs[checksum_path].data, 1, 2)
                = hexdigest(sha256_update(sha256_new, fs[artifact_path].data))

\* C17 witness: a zipapp build ran its six commands and wrote its checksum
C17_Witness ==
    /\ Succeeded /\ strategy = "zipapp"
    /\ Len(cmds) = 6 /\ checksum_path # NoPath

\* C18 as stated: every fixed output path a build has written (staging root, final
\* artifact, checksum file, freezer build directory and spec file) was deleted
\* first if it existed, so that what is there after the build is an entry the
\* build created, never an earlier entry written over.
C18_DeletedBeforeWritten ==
    Succeeded =>
        \A p \in {FinalOutputPath, FinalChecksumPath, BundleDir,
                   FreezerBuildDir, FreezerSpecFile} \cap Leftovers :
            fs[p].born = "self"

\* C19 as stated: every failure of a build ends with main's handler printing a
\* diagnostic on the error stream and exiting non-zero; a successful build exits
\* with status 0 after printing the artifact path and the checksum path.
C19_DiagnosticAndExit ==
    pc = "exited" =>
        IF raised # "none"
        THEN /\ exit_status # 0
             /\ stderr # <<>> /\ stderr[1] = "\nERROR: "
             /\ ~stdout.printed
        ELSE /\ exit_status = 0
             /\ stderr = <<>>
             /\ stdout.printed
             /\ stdout.artifact = FinalOutputPath /\ stdout.checksum = FinalChecksumPath

\* the staged layout is in place: the staging function has returned its root
Staged == staging_root # NoPath /\ Exists(fs, staging_root)

\* the paths below root, relative to it
RelativePaths(f, root) ==
    {SubSeq(q, Len(root) + 1, Len(q)) : q \in {x \in DOMAIN f : IsUnder(x, root)}}

\* the layout the same request stages from the same environment contents on a
\* host where nothing was at the staging path
ReferenceLayout ==
    LET tmp  == mkdtemp_path(strategy)
        venv == venv_dir_of(strategy, tmp)
        root == staging_root_of(strategy, args.platform_tag)
        dist == Join(tmp, <<"dist">>)
        pyz  == Join(tmp, APP_NAME \o <<".", "pyz">>)
        f1   == project_installed(venv_created(MkdirP(PristineFS, tmp), venv), venv)
    IN  CASE strategy \in InstallerStrategies ->
                 RelativePaths(create_package_root(strategy, f1, venv, tmp),
                               Join(tmp, <<"pkg_root">>))
          [] strategy = "venv" -> RelativePaths(stage_bundle_venv(f1, venv, root), root)
          [] strategy = "zipapp" ->
                 RelativePaths(stage_bundle_zipapp(WriteEntry(f1, pyz, File(<<>>)), pyz, root),
                               root)
          [] strategy = "pyinstaller" ->
                 RelativePaths(
                     stage_bundle_pyinstaller(
                         pyinstaller_ran(f1, FreezerBuildDir, FreezerSpecFile, dist,
                                         args.onefile, TRUE),
                         Join(dist, APP_NAME), root, args.onefile),
                     root)

StalePath == stale_path(args)

\* _ensure_clean has been called on that path: the installer scripts call it
\* before they look for pkgbuild, the archive scripts at the start of staging
CleanedStalePath ==
    IF strategy \in InstallerStrategies THEN Ran("which-pkgbuild")
    ELSE staging_root # NoPath \/ raised \in {"OSError", "FileExistsError"}

\* what was at or below a path when the build started is as it was
Untouched(root) ==
    \A p \in DOMAIN InitialFS : IsUnder(p, root) => (Exists(fs, p) /\ fs[p] = InitialFS[p])

\* C23 as stated: in every strategy _ensure_clean leaves nothing of what was at a
\* given path, whether that was a regular file, a directory tree or a symbolic
\* link (to a file, to a directory, or dangling), and a link's target, with all
\* below it, is neither deleted nor changed.
C23_EnsureCleanKinds ==
    (prior.stale # "none" /\ CleanedStalePath) =>
        /\ \A p \in DOMAIN InitialFS :
               IsUnder(p, StalePath) => ~(Exists(fs, p) /\ fs[p].born = "host")
        /\ Untouched(link_target)

\* the request asks for the distribution phase: build_pkg_installer.py with
\* --use-distribution; build_pkgnew_installer.py runs it in every build
DistributionRequested ==
    \/ strategy = "pkg" /\ args.use_distribution
    \/ strategy = "pkgnew"

\* C22 as stated: when the distribution phase is requested, the installer a
\* successful build leaves at the artifact path was written by productbuild, the
\* last command of the build, and not by pkgbuild, which writes the bare
\* component package.
C22_DistributionPhase ==
    (Succeeded /\ DistributionRequested) =>
        /\ IsFile(fs, artifact_path)
        /\ Ran("productbuild")
        /\ LastCmd.tool = "productbuild"

\* a launcher script: a file that execs the runtime it names
IsLauncher(e) == e.kind = "file" /\ e.data # <<>> /\ e.data[1] = "exec"

LauncherScripts == {p \in DOMAIN fs : IsUnder(p, staging_root) /\ IsLauncher(fs[p])}

StagedBin == Join(staging_root, <<"bin">>)

\* the copies of a provisioned environment in the staged layout
EnvironmentCopies ==
    {p \in DOMAIN fs : /\ IsUnder(p, staging_root) /\ fs[p].kind = "dir"
                       /\ Exists(fs, Join(Join(p, <<"bin">>), <<"python3">>))}

\* the .pyz archives in the staged layout
ZipappCopies ==
    {p \in DOMAIN fs : /\ IsUnder(p, staging_root) /\ fs[p].kind = "file"
                       /\ EndsWith(Name(p), <<".", "pyz">>)}

\* the frozen products in the staged layout: what is in bin/ and is no script
FrozenProducts ==
    {p \in DOMAIN fs : Len(p) > 1 /\ Parent(p) = StagedBin /\ ~IsLauncher(fs[p])}

RuntimePayloads == EnvironmentCopies \cup ZipappCopies \cup FrozenProducts

\* what a user of the staged layout can start: the scripts and the frozen product
EntryPoints == LauncherScripts \cup FrozenProducts

\* the positions of the build function at which the packaging phase starts
PackagingStarts == pc \in {"create_pkg_installer", "create_tarball"}

\* C24 as stated: a staged layout holds exactly one launcher entry point and
\* exactly one runtime payload.
C24_Original ==
    Staged => Cardinality(EntryPoints) = 1 /\ Cardinality(RuntimePayloads) = 1

\* C24: a staged layout holds exactly one runtime payload; its launcher scripts
\* are bin/mycli alone in the installer scripts, bin/mycli and bin/mycli.bat in
\* the venv and zipapp scripts, and none in the pyinstaller script, whose entry
\* point bin/mycli is the frozen payload itself; and packaging starts only on a
\* layout that a staging function returned without raising.
C24_LaunchersAndPayload ==
    /\ Staged =>
          /\ Cardinality(RuntimePayloads) = 1
          /\ LauncherScripts =
                CASE strategy \in InstallerStrategies -> {Join(StagedBin, <<"mycli">>)}
                  [] strategy \in {"venv", "zipapp"} ->
                         {Join(StagedBin, <<"mycli">>), Join(StagedBin, <<"mycli", ".", "bat">>)}
                  [] strategy = "pyinstaller" -> {}
          /\ strategy = "pyinstaller" =>
                /\ EntryPoints = RuntimePayloads
                /\ \A p \in EntryPoints : SubSeq(Name(p), 1, 1) = <<"mycli">>
    /\ PackagingStarts => (Staged /\ raised = "none")
    /\ (raised \in {"OSError", "FileExistsError"}) =>
          (staging_root = NoPath /\ artifact_path = NoPath)

\* a zipapp layout is staged with its two launchers and the archive
C24_Witness ==
    /\ Staged /\ strategy = "zipapp" /\ pc = "create_tarball"
    /\ Cardinality(LauncherScripts) = 2
    /\ ZipappCopies # {}

\* the scripts that stage a copy of the provisioned environment
CopiesEnvironment == strategy \in {"pkg", "pkgnew", "venv"}

\* where the copy is staged
StagedEnvironment ==
    CASE strategy = "pkg"    -> staging_root \o << <<"libexec">>, <<"mycli", "-venv">> >>
      [] strategy = "pkgnew" -> staging_root \o << <<"microsoft">>, <<"mycli">> >>
      [] strategy = "venv"   -> staging_root \o << <<"libexec">>, <<"mycli", "-venv">> >>

\* a relative path that names a bytecode cache directory or leads into one
InBytecodeCache(r) == \E i \in 1..Len(r) : r[i] = <<"__pycache__">>

\* a relative path that names compiled bytecode
IsBytecodeFile(r) ==
    /\ r # <<>>
    /\ \/ EndsWith(r[Len(r)], <<".", "pyc">>)
       \/ EndsWith(r[Len(r)], <<".", "pyo">>)

\* the environment as venv and pip leave it, relative to its root
ProvisionedEnvironment ==
    LET tmp  == mkdtemp_path(strategy)
        venv == venv_dir_of(strategy, tmp)
    IN  RelativePaths(project_installed(venv_created(MkdirP(PristineFS, tmp), venv), venv), venv)

\* C25: in the pkg, pkgnew and venv scripts, when packaging starts the staged
\* copy of the environment holds no __pycache__ directory and no *.pyc or *.pyo
\* file at any depth, and holds everything else of the environment; as long as
\* the workspace exists, the source environment still has its bytecode caches.
C25_PrunedCopy ==
    CopiesEnvironment =>
        /\ PackagingStarts =>
              /\ \A r \in RelativePaths(fs, StagedEnvironment) :
                     ~InBytecodeCache(r) /\ ~IsBytecodeFile(r)
              /\ RelativePaths(fs, StagedEnvironment) =
                     {r \in ProvisionedEnvironment : ~InBytecodeCache(r) /\ ~IsBytecodeFile(r)}
        /\ (Staged /\ tmp_dir # NoPath) =>
              /\ RelativePaths(fs, venv_dir) = ProvisionedEnvironment
              /\ \E r \in RelativePaths(fs, venv_dir) : InBytecodeCache(r)
              /\ \E r \in RelativePaths(fs, venv_dir) : IsBytecodeFile(r) /\ ~InBytecodeCache(r)

\* the installer script is about to package a pruned copy of an environment
\* that has a cache directory and a stray .pyo file
C25_Witness ==
    /\ strategy = "pkg" /\ pc = "create_pkg_installer"
    /\ Exists(fs, venv_dir \o << <<"lib">>, <<"mycli_app">>, <<"__pycache__">>, <<"cli", ".", "pyc">> >>)
    /\ Exists(fs, venv_dir \o << <<"lib">>, <<"mycli_app">>, <<"legacy", ".", "pyo">> >>)
    /\ Exists(fs, StagedEnvironment \o << <<"lib">>, <<"mycli_app">>, <<"cli", ".", "py">> >>)

\* the metadata document a build has generated, while the workspace holds it
DistributionXml == Join(tmp_dir, <<"distribution", ".", "xml">>)

Generated == tmp_dir # NoPath /\ Exists(fs, DistributionXml)

Document == fs[DistributionXml].data

\* positions of the elements with a tag, and of those directly below a parent
Tagged(tag) == {i \in 1..Len(Document) : Document[i].tag = tag}

ChildrenOf(i, tag) == {j \in Tagged(tag) : Document[j].parent = i}

\* C26 as stated: every generated metadata document has exactly one package
\* reference below its root, one choices outline that contains exactly one line
\* element, and one choice definition, whose id is the one the line names and whose
\* package reference carries the identifier passed to pkgbuild, as does the
\* top-level package reference.
C26_DocumentStructure ==
    Generated =>
        /\ Cardinality(ChildrenOf(1, "pkg-ref")) = 1
        /\ Cardinality(Tagged("choices-outline")) = 1
        /\ Cardinality(Tagged("line")) = 1
        /\ Cardinality(Tagged("choice")) = 1
        /\ \A l \in Tagged("line") :
               /\ Document[l].parent \in Tagged("choices-outline")
               /\ \A c \in Tagged("choice") : Document[c].id = Document[l].choice
        /\ \A c \in Tagged("choice") :
               /\ Cardinality(ChildrenOf(c, "pkg-ref")) = 1
               /\ \A r \in ChildrenOf(c, "pkg-ref") : Document[r].id = PKG_IDENTIFIER
        /\ \A r \in ChildrenOf(1, "pkg-ref") : Document[r].id = PKG_IDENTIFIER
        /\ Ran("pkgbuild") => Mentions(command_list("pkgbuild"), PKG_IDENTIFIER)

ExitedZero(tool) == \E i \in 1..Len(cmds) : cmds[i] = [tool |-> tool, rc |-> 0]

\* the installer phase that ran last exited with status 0
PhaseExitedZero(tool) == cmds # <<>> /\ LastCmd = [tool |-> tool, rc |-> 0]

\* the component package, while the workspace holds it
ComponentPackage ==
    Join(tmp_dir, <<"mycli", "-component-">> \o version \o <<"-">> \o args.platform_tag \o <<".", "pkg">>)

\* the build has ended in main's handler: diagnostic on stderr, exit status 1
EndedInHandler ==
    /\ raised = "BuildError"
    /\ pc = "exited" => (exit_status = 1 /\ stderr # <<>> /\ stderr[1] = "\nERROR: ")

\* C27 as stated: in the installer scripts, when pkgbuild or productbuild has
\* exited 0 and its expected output file is missing, the build fails with
\* BuildError, which main catches (exit status 1); a component package that exists
\* but is below the size threshold produces a warning and the build goes on to
\* productbuild.
C27_OutputValidation ==
    strategy \in InstallerStrategies =>
        /\ (PhaseExitedZero("pkgbuild") /\ strategy = "pkg" /\ ~Exists(fs, FinalOutputPath)) =>
              EndedInHandler
        /\ (PhaseExitedZero("pkgbuild") /\ strategy = "pkgnew") =>
              (EndedInHandler /\ Mentions(message, "Component package creation failed: "))
        /\ (PhaseExitedZero("productbuild") /\ ~Exists(fs, FinalOutputPath)) =>
              EndedInHandler
        /\ (tmp_dir # NoPath /\ ExitedZero("pkgbuild") /\ strategy = "pkgnew"
                /\ Exists(fs, ComponentPackage)
                /\ Len(fs[ComponentPackage].data) < SMALL_COMPONENT_SIZE) =>
              (stdout.warning /\ Ran("productbuild"))
        /\ stdout.warning => Ran("productbuild")

\* the launcher of an installer's package root
SystemLauncher == Join(StagedBin, <<"mycli">>)

\* C28: in both installer scripts the launcher is staged at bin/mycli under the
\* package root, and the interpreter path written into it is pkgbuild's install
\* location /usr/local, joined with the path of the staged environment copy
\* relative to the package root, joined with bin/python3.
C28_LauncherInterpreterPath ==
    (strategy \in InstallerStrategies /\ Staged) =>
        /\ LauncherScripts = {SystemLauncher}
        /\ EnvironmentCopies # {}
        /\ \A c \in EnvironmentCopies :
               fs[SystemLauncher].data[2] =
                   pkgbuild_install_location
                       \o SubSeq(c, Len(staging_root) + 1, Len(c))
                       \o << <<"bin">>, <<"python3">> >>
        /\ Ran("pkgbuild") =>
               Contains(command_list("pkgbuild"), <<"--install-location", "/usr/local">>)

\* build_pkgnew_installer.py has staged its package root and run pkgbuild on it
C28_Witness ==
    /\ strategy = "pkgnew" /\ Staged /\ Ran("pkgbuild")
    /\ Exists(fs, SystemLauncher)
    /\ Exists(fs, staging_root \o << <<"microsoft">>, <<"mycli">>, <<"bin">>, <<"python3">> >>)

\* the checksum files on the host, and the artifact each one stands next to
ChecksumFiles ==
    {c \in DOMAIN fs : fs[c].kind = "file" /\ EndsWith(Name(c), <<".", "sha256">>)}

ArtifactOf(c) == Join(Parent(c), SubSeq(Name(c), 1, Len(Name(c)) - 2))

\* C29 as stated: when a build invocation has ended, successfully or not, every
\* checksum file <artifact>.sha256 stands next to an existing artifact and records
\* the digest of that artifact's current bytes.
C29_ChecksumNextToArtifact ==
    pc = "exited" =>
        \A c \in ChecksumFiles :
            /\ IsFile(fs, ArtifactOf(c))
            /\ fs[c].data = checksum_line_of(fs, ArtifactOf(c))

\* the temporary directories a build of this strategy can have been given
Workspaces ==
    {<< <<"tmp">>, tmp_prefix(strategy) \o <<d>> >> : d \in {"x7k2", "p9q4"}}

InWorkspace(p) == \E w \in Workspaces : IsUnder(p, w)

\* the paths the printed summary names
SummaryPaths ==
    IF stdout.printed
    THEN {stdout.bundle_dir, stdout.artifact, stdout.checksum} \ {NoPath}
    ELSE {}

\* C30: every path that a step reads, writes or names after the temporary
\* directory has been destroyed (archive creation, checksum emission, summary)
\* lies under the persistent artifacts directory and none lies inside the
\* temporary directory.
C30_NoWorkspaceUseAfterTeardown ==
    \A p \in touched.late \cup SummaryPaths :
        /\ IsUnder(p, artifacts_dir_of(strategy))
        /\ ~InWorkspace(p)

\* a build went through teardown, then archived, checksummed and summarised
C30_Witness ==
    /\ Succeeded
    /\ teardowns = 1
    /\ stdout.printed
    /\ FinalOutputPath \in touched.late
    /\ FinalChecksumPath \in touched.late
    /\ WorkspaceGone

====
